---- MODULE Spec2Model ----
(***************************************************************************)
(* MenZ-GeminiCLI: the per-speaker buffering and dispatch engine of        *)
(* src/app/client.py (handle_connection and the shutdown part of           *)
(* main_with_runner), the completion detector and session bridge of        *)
(* src/app/geminicli_runner.py, and the sanitizer.                         *)
(*                                                                         *)
(* Spec     the connection engine: one established connection, its         *)
(*          message loop, idle-timer tasks, teardown and shutdown.         *)
(* DetSpec  the completion detector (_wait_answer) and the exchanges of    *)
(*          the session bridge reading a scripted output of the child.     *)
(* SanSpec  _sanitize_text applied to a text, and to its own result.       *)
(* MainSpec main_with_runner: the session's initialization, the reconnect  *)
(*          loop with its backoff, and the shutdown signal; a connection   *)
(*          is taken as a whole, by the way handle_connection ends.        *)
(* GenSpec  generate_comment_async with _extract_comment, and the dispatch *)
(*          of its comment by the two callers in client.py.                *)
(* ExtSpec  _extract_comment applied to a raw output.                      *)
(* EvtSpec  the connection engine with a peer that sends events only.      *)
(* SessSpec the session's life: initialize, close and exchanges called one *)
(*          after the other.                                               *)
(***************************************************************************)
EXTENDS Integers, Sequences, FiniteSets, TLC

(***************************************************************************)
(* Bounds of the model.                                                    *)
(***************************************************************************)
\* inbound messages handled on the connection
MaxMsgs == 3
\* lines of the longest enumerated output script of the child process
MaxScriptLen == 4
\* characters of the longest text handed to the sanitizer
MaxTextLen == 2
\* connections main_with_runner attempts
MaxAttempts == 7
\* largest configured lines_per_inference drawn by Init
MaxThreshold == 3
\* segments of the longest enumerated raw answer
MaxSegs == 2
\* comments dispatched on the connection GenSpec follows
MaxSends == 2
\* calls made on the session SessSpec follows
MaxOps == 4

VARIABLES
    \* ---- configuration (client.py 271-272)
    lines_per_inference,
    idle_flush_seconds,
    \* ---- handle_connection locals (client.py 54-56)
    speaker_buffers,      \* key -> sequence of lines
    buf_keys,             \* the dict's keys in insertion order
    idle_tasks,           \* key -> task id, 0 when the key is absent
    tasks,                \* every idle task ever created: id -> [st, key, flush, end]
    \* ---- process_messages task
    msg_pc,               \* recv | comment_exch | flush_exch | done | failed | cancelled
    msg_flush,            \* index in flushes of the threshold flush in flight
    \* ---- handle_connection task
    conn_pc,              \* serving | cancel_closing | teardown | closed
    td_keys,              \* keys the teardown loop has still to visit
    td_flush,             \* index in flushes of the teardown flush in flight
    td_aborted,           \* the teardown loop was left by a CancelledError
    ws_closed,            \* the transport is closed (by the peer or by us)
    \* ---- main_with_runner
    shutdown_event,
    main_pc,              \* wait | cancelling | done | backoff_sleep | reset_reconnect
    \* ---- history
    nrecv,                \* inbound messages handled so far
    received,             \* key -> every subtitle line handled, in arrival order
    flushes,              \* every removal of a non-empty batch, in order
    comments,             \* immediate comments: sequence of outcomes
    sd_snapshot,          \* buffers and flush count at the shutdown signal
    late_fire,            \* an idle task flushed after the connection closed
    \* ---- the child process's output and GeminiCLIRunner (geminicli_runner.py)
    script,               \* the lines the child process prints, in order
    pos,                  \* lines read from it so far
    xstart,               \* pos when the current exchange began
    det_pc,               \* idle | seek | track | drain | returned | wait_prompt
    skip_text,            \* _wait_answer's skip_text
    last,                 \* Phase 2: the tracked answer
    found_empty_after_diamond,
    is_loading,
    answer,               \* what _wait_answer returned
    how,                  \* how it returned: none | confirmed | deadline | readfail
    last_answer,          \* self._last_answer
    last_answer_src,      \* how the answer stored in it had been returned
    exch_result,          \* none | answer | timeout: _send_and_receive_async's end
    track_from,           \* history: pos of the marker line that began the tracking
    \* ---- _sanitize_text (geminicli_runner.py)
    san_in,               \* the text handed to _sanitize_text
    san_out,              \* its result
    san_out2,             \* the result of sanitizing that once more
    san_pc,               \* idle | in | once | twice
    \* ---- main_with_runner: startup and the reconnect loop (client.py 254-345)
    m_pc,                 \* off | init | loop_top | in_connection | sleeping | ended | killed
    init_outcome,         \* none | spawn_failed | prompt_ready | prompt_timeout | prompt_error
    initialized,          \* runner._initialized
    reconnect_initial_ms,
    reconnect_max_ms,
    backoff_ms,
    force_armed,          \* signal_handler's force_exit thread is running
    attempts,             \* history: handle_connection tasks created
    fails,                \* history: failures since the start or the last clean session
    sleeps,               \* history: every sleep_ms slept, in order
    \* ---- generate_comment_async and its callers (geminicli_runner.py 326-378)
    g_pc,                 \* off | recv | exchange | dispatch | failed | cancelled
    g_path,               \* none | flush | comment: the caller
    max_output_chars,
    g_outcome,            \* none | answer | timeout | error | cancelled
    g_raw,                \* what _send_and_receive_async returned
    g_extracted,          \* what _extract_comment made of it
    g_comment,            \* the caller's comment
    g_sent,               \* the text of the outbound message of the current
                          \* handling, << >> until it is sent
    g_nsent,              \* history: outbound messages sent
    \* ---- the session's fields (geminicli_runner.py 49-55) and its calls
    _child,               \* none | proc
    _initialized,
    _last_answer,
    system_prompt,        \* a system prompt is configured
    s_ops,                \* history: the calls made, in order
    s_spawned,            \* history: processes started
    s_sys_sent,           \* history: system prompts sent to a process
    s_prompts_sent,       \* history: prompts sent to a process by exchanges
    s_quits               \* history: "/quit" lines sent by close

connVars == << lines_per_inference, idle_flush_seconds, speaker_buffers, buf_keys,
               idle_tasks, tasks, msg_pc, msg_flush, conn_pc, td_keys, td_flush,
               td_aborted, ws_closed, shutdown_event, main_pc, nrecv, received,
               flushes, comments, sd_snapshot, late_fire >>

detVars == << script, pos, xstart, det_pc, skip_text, last, found_empty_after_diamond,
              is_loading, answer, how, last_answer, last_answer_src, exch_result,
              track_from >>

sanVars == << san_in, san_out, san_out2, san_pc >>

mainVars == << m_pc, init_outcome, initialized, reconnect_initial_ms, reconnect_max_ms,
               backoff_ms, force_armed, attempts, fails, sleeps >>

genVars == << g_pc, g_path, max_output_chars, g_outcome, g_raw, g_extracted,
              g_comment, g_sent, g_nsent >>

sessVars == << _child, _initialized, _last_answer, system_prompt, s_ops, s_spawned,
               s_sys_sent, s_prompts_sent, s_quits >>

\* the connection engine's variables but the shutdown event
connRest == << lines_per_inference, idle_flush_seconds, speaker_buffers, buf_keys,
               idle_tasks, tasks, msg_pc, msg_flush, conn_pc, td_keys, td_flush,
               td_aborted, ws_closed, main_pc, nrecv, received, flushes, comments,
               sd_snapshot, late_fire >>

\* what the actions of each part leave alone
otherVars == << detVars, sanVars, mainVars, genVars, sessVars >>
notDetVars == << connVars, sanVars, mainVars, genVars, sessVars >>
notSanVars == << connVars, detVars, mainVars, genVars, sessVars >>
notMainVars == << connRest, detVars, sanVars, genVars, sessVars >>
notGenVars == << connVars, detVars, sanVars, mainVars, sessVars >>
notSessVars == << connVars, detVars, sanVars, mainVars, genVars >>

vars == << connVars, detVars, sanVars, mainVars, genVars, sessVars >>

(***************************************************************************)
(* Values.                                                                 *)
(***************************************************************************)
\* Python's None for an absent speaker field
NoneVal == "<None>"
\* speaker fields an inbound message may carry
Speakers == {NoneVal, "", "alice"}
\* the character code of "\n"; a line's own characters are 1..MaxMsgs
NL == 0

Max(a, b) == IF a >= b THEN a ELSE b
Min(a, b) == IF a <= b THEN a ELSE b

_speaker_key(s) == IF s = NoneVal THEN "" ELSE s

Keys == { _speaker_key(s) : s \in Speakers }

\* "\n".join(buf)
RECURSIVE Join(_)
Join(buf) ==
    IF buf = << >> THEN << >>
    ELSE IF Len(buf) = 1 THEN buf[1]
    ELSE buf[1] \o << NL >> \o Join(Tail(buf))

\* the text of the n-th inbound message: one character of its own
LineText(n) == << n >>

EffectiveThreshold == Max(1, lines_per_inference)

ThresholdReached_gt(current_len) == current_len > EffectiveThreshold

ThresholdReached(current_len) == current_len >= EffectiveThreshold

\* task.done() is false
Alive(t) == t.st \in {"sleep", "exch"}

\* end: how the task's coroutine ended (none | returned | raised_error |
\* raised_cancelled)
NoTask == [st |-> "unborn", key |-> "", flush |-> 0, sup |-> 0, end |-> "none"]

\* the task object asyncio.create_task(idle_wait_and_flush(speaker)) returns
NewTask(key) == [st |-> "sleep", key |-> key, flush |-> 0, sup |-> 0, end |-> "none"]

\* one removal of a batch by flush_buffer: the lines taken, the text sent to
\* the session, who called (threshold | idle | teardown), the idle task's id,
\* and what became of the batch (inflight | sent | sendfail | cancelled)
NewFlush(key, buf, by, tid) ==
    [key |-> key, lines |-> buf, text |-> Join(buf), by |-> by, tid |-> tid,
     out |-> "inflight"]

\* flush_buffer without `speaker_buffers[key] = []`
flush_buffer_noclear(bufs, fl, key, by, tid) ==
    [bufs |-> bufs,
     fl   |-> Append(fl, NewFlush(key, bufs[key], by, tid))]

\* flush_buffer up to its exchange, the buffer not empty (client.py 76-81)
flush_buffer(bufs, fl, key, by, tid) ==
    [bufs |-> [bufs EXCEPT ![key] = << >>],
     fl   |-> Append(fl, NewFlush(key, bufs[key], by, tid))]

\* ws.send(...): raises ConnectionClosed on a closed transport
SendOutcome == IF ws_closed THEN "sendfail" ELSE "sent"

\* the flush record of an exchange thrown out of by CancelledError
AbandonFlush(fl, i) ==
    IF i # 0 /\ fl[i].out = "inflight" THEN [fl EXCEPT ![i].out = "cancelled"] ELSE fl

\* the first check of the message loop, reached by every `continue`
LoopTop == IF shutdown_event THEN "done" ELSE "recv"

(***************************************************************************)
(* Inbound messages other than a subtitle or a comment with text           *)
(* (client.py 139-193).  A message is described by what the parsing looks  *)
(* at: json  the text parses as JSON; obj  the parsed value is an object;  *)
(* env  it has "jsonrpc": "2.0" and a "params" member; params_obj  that    *)
(* member is an object; type, text_empty  the fields read from params or   *)
(* from the payload itself.                                                *)
(***************************************************************************)
Msg(json, obj, env, params_obj, type, text_empty) ==
    [json |-> json, obj |-> obj, env |-> env, params_obj |-> params_obj, type |-> type,
     text_empty |-> text_empty]

OtherInbound ==
    { Msg(FALSE, FALSE, FALSE, FALSE, NoneVal, TRUE),      \* not JSON
      Msg(TRUE, FALSE, FALSE, FALSE, NoneVal, TRUE),       \* JSON array, number, string
      Msg(TRUE, TRUE, TRUE, FALSE, NoneVal, TRUE),         \* envelope, params not an object
      Msg(TRUE, TRUE, TRUE, TRUE, "other", FALSE),         \* envelope, unknown type
      Msg(TRUE, TRUE, FALSE, FALSE, NoneVal, FALSE),       \* legacy, no type
      Msg(TRUE, TRUE, TRUE, TRUE, "comment", TRUE),        \* envelope, comment without text
      Msg(TRUE, TRUE, FALSE, FALSE, "comment", TRUE),      \* legacy, comment without text
      Msg(TRUE, TRUE, TRUE, TRUE, "subtitle", TRUE),       \* envelope, subtitle without text
      Msg(TRUE, TRUE, FALSE, FALSE, "subtitle", TRUE) }    \* legacy, subtitle without text

\* what process_messages does with a message: drop (`continue`), raise (an
\* AttributeError out of payload.get or params.get, caught nowhere in the
\* loop), or handle it as a comment or a subtitle
Classify(m) ==
    IF ~m.json THEN "drop"
    ELSE IF ~m.obj THEN "raise"
    ELSE IF m.env /\ ~m.params_obj THEN "raise"
    ELSE IF m.type = "comment" THEN (IF m.text_empty THEN "drop" ELSE "comment")
    ELSE IF m.type # "subtitle" THEN "drop"
    ELSE IF m.text_empty THEN "drop"
    ELSE "subtitle"

(***************************************************************************)
(* Idle tasks (client.py 61-72, 104-116).  task.cancel() on a task that    *)
(* is asleep or awaiting its exchange throws CancelledError into it, which *)
(* idle_wait_and_flush catches and returns on: the task does nothing more. *)
(***************************************************************************)
\* idle_wait_and_flush's `except asyncio.CancelledError: return` (client.py
\* 108-109): how the coroutine ends when CancelledError is thrown into it
IdleEndOnCancel == "returned"

\* the tasks after cancel_idle_task's task.cancel()
CancelTask(ts, id) ==
    IF id # 0 /\ Alive(ts[id])
    THEN [ts EXCEPT ![id].st = "cancelled", ![id].end = IdleEndOnCancel]
    ELSE ts

\* the flush log after it: an exchange the task was awaiting is abandoned
CancelTaskFlush(fl, ts, id) ==
    IF id # 0 /\ ts[id].st = "exch" THEN AbandonFlush(fl, ts[id].flush) ELSE fl

\* cancel_idle_task without task.cancel()
cancel_idle_task_poponly(ts, it, fl, key) ==
    [ts |-> ts, it |-> [it EXCEPT ![key] = 0], fl |-> fl]

\* cancel_idle_task(speaker): [tasks, idle_tasks, flushes] afterwards
cancel_idle_task(ts, it, fl, key) ==
    [ts |-> CancelTask(ts, it[key]),
     it |-> [it EXCEPT ![key] = 0],
     fl |-> CancelTaskFlush(fl, ts, it[key])]

RECURSIVE CancelAllFlush(_, _, _)
CancelAllFlush(fl, ts, ids) ==
    IF ids = {} THEN fl
    ELSE LET id == CHOOSE x \in ids : TRUE
         IN  CancelAllFlush(CancelTaskFlush(fl, ts, id), ts, ids \ {id})

\* cancel_all_idle_tasks()
cancel_all_idle_tasks(ts, it, fl) ==
    LET ids == { it[k] : k \in Keys } \ {0}
    IN  [ts |-> [id \in DOMAIN ts |-> IF id \in ids THEN CancelTask(ts, id)[id] ELSE ts[id]],
         it |-> [k \in Keys |-> 0],
         fl |-> CancelAllFlush(fl, ts, ids)]

IdleFlushDisabled_le1 == idle_flush_seconds <= 1

\* schedule_idle_flush's early return
IdleFlushDisabled == idle_flush_seconds <= 0

\* schedule_idle_flush(speaker), the task it creates getting the id `id`
schedule_idle_flush_nocancel(ts, it, fl, key, id) ==
    IF IdleFlushDisabled THEN [ts |-> ts, it |-> it, fl |-> fl]
    ELSE [ts |-> [ts EXCEPT ![id] = NewTask(key)],
          it |-> [it EXCEPT ![key] = id],
          fl |-> fl]

schedule_idle_flush(ts, it, fl, key, id) ==
    IF IdleFlushDisabled THEN [ts |-> ts, it |-> it, fl |-> fl]
    ELSE LET c == cancel_idle_task(ts, it, fl, key)
         IN  [ts |-> [c.ts EXCEPT ![id] = NewTask(key)],
              it |-> [c.it EXCEPT ![key] = id],
              fl |-> c.fl]

(***************************************************************************)
(* The child process's output.  A line is a sequence of tokens: a spinner  *)
(* frame, the answer marker, whitespace, an ANSI escape sequence, the      *)
(* literal "Using:", or a run of ordinary characters.  A text (an answer,  *)
(* skip_text) is a sequence of ordinary tokens.                            *)
(***************************************************************************)
\* Python's None for an Optional[str]
NoText == << "<None>" >>
\* two frames of _SPINNER_CHARS
SpinnerChars == {"SPIN_A", "SPIN_B"}
\* the answer marker glyph
Marker == "MARK"
Whitespace == {"SP"}
\* what self._ansi_re matches
AnsiSeqs == {"ESC"}

Hello == << "Hello" >>
HelloWorld == << "Hello", ", world" >>
NewAnswer == << "New answer" >>

LineSpinA == << "SPIN_A" >>
LineSpinB == << "SPIN_B" >>
LineHello == << Marker, "SP" >> \o Hello
LineHelloWorld == << Marker, "SP" >> \o HelloWorld
LineNewAnswer == << Marker, "SP" >> \o NewAnswer
LineMarkerOnly == << Marker, "SP" >>
LineBlank == << >>
LineAnsiBlank == << "ESC" >>
LineUsing == << "Using:", "SP", "10 tokens" >>
LinePrompt == << ">", "SP", "Type your message" >>

\* the lines the enumerated scripts are made of
LineAlphabet ==
    { LineSpinA, LineHello, LineHelloWorld, LineMarkerOnly, LineAnsiBlank, LineUsing,
      LinePrompt }

\* the scripted scenarios
ScriptStreaming ==
    << LineSpinA, LineHello, LineSpinB, LineHelloWorld, LineBlank, LineUsing >>
ScriptStale ==
    ScriptStreaming \o << LineNewAnswer, LineSpinB, LineBlank, LineUsing >>

RECURSIVE SeqsUpTo(_, _)
SeqsUpTo(S, n) ==
    IF n = 0 THEN { << >> }
    ELSE LET shorter == SeqsUpTo(S, n - 1)
         IN  shorter \cup { Append(q, x) : q \in shorter, x \in S }

Scripts == SeqsUpTo(LineAlphabet, MaxScriptLen) \cup { ScriptStreaming, ScriptStale }

\* self._ansi_re.sub('', line)
RECURSIVE StripAnsi(_)
StripAnsi(line) ==
    IF line = << >> THEN << >>
    ELSE IF Head(line) \in AnsiSeqs THEN StripAnsi(Tail(line))
    ELSE << Head(line) >> \o StripAnsi(Tail(line))

RECURSIVE LStrip(_)
LStrip(t) ==
    IF t # << >> /\ Head(t) \in Whitespace THEN LStrip(Tail(t)) ELSE t

RECURSIVE RStrip(_)
RStrip(t) ==
    IF t # << >> /\ t[Len(t)] \in Whitespace THEN RStrip(SubSeq(t, 1, Len(t) - 1)) ELSE t

\* str.strip()
Strip(t) == RStrip(LStrip(t))

\* content = self._ansi_re.sub('', line).strip()
Content(line) == Strip(StripAnsi(line))

\* re.search(marker \s*(.*), content) matches
HasMarker(cont) == \E i \in 1..Len(cont) : cont[i] = Marker

\* m.group(1).strip() of the leftmost match
MarkerBody(cont) ==
    LET i == CHOOSE j \in 1..Len(cont) :
                 cont[j] = Marker /\ \A h \in 1..(j - 1) : cont[h] # Marker
    IN  Strip(SubSeq(cont, i + 1, Len(cont)))

\* any(cont.startswith(c) for c in self._SPINNER_CHARS)
IsSpinner(cont) == cont # << >> /\ cont[1] \in SpinnerChars

\* cont.startswith('Using:')
StartsWithUsing(cont) == cont # << >> /\ cont[1] = "Using:"

\* Python truthiness of an Optional[str]
Truthy(t) == t # NoText /\ t # << >>

(***************************************************************************)
(* The connection engine.                                                  *)
(***************************************************************************)
\* the runner is not exchanging
DetIdle ==
    /\ script = << >>
    /\ pos = 0
    /\ xstart = 0
    /\ det_pc = "idle"
    /\ skip_text = NoText
    /\ last = NoText
    /\ found_empty_after_diamond = FALSE
    /\ is_loading = FALSE
    /\ answer = NoText
    /\ how = "none"
    /\ last_answer = NoText
    /\ last_answer_src = "init"
    /\ exch_result = "none"
    /\ track_from = 0

\* no text is being sanitized
SanIdle ==
    /\ san_in = << >>
    /\ san_out = << >>
    /\ san_out2 = << >>
    /\ san_pc = "idle"

\* main_with_runner is not being followed
MainIdle ==
    /\ m_pc = "off"
    /\ init_outcome = "none"
    /\ initialized = FALSE
    /\ reconnect_initial_ms = 500
    /\ reconnect_max_ms = 5000
    /\ backoff_ms = 500
    /\ force_armed = FALSE
    /\ attempts = 0
    /\ fails = 0
    /\ sleeps = << >>

\* the session is not being followed
SessIdle ==
    /\ _child = "none"
    /\ _initialized = FALSE
    /\ _last_answer = NoText
    /\ system_prompt = FALSE
    /\ s_ops = << >>
    /\ s_spawned = 0
    /\ s_sys_sent = 0
    /\ s_prompts_sent = 0
    /\ s_quits = 0

\* no comment is being generated
GenIdle ==
    /\ g_pc = "off"
    /\ g_path = "none"
    /\ max_output_chars = 120
    /\ g_outcome = "none"
    /\ g_raw = << >>
    /\ g_extracted = << >>
    /\ g_comment = << >>
    /\ g_sent = << >>
    /\ g_nsent = 0

\* handle_connection's and main_with_runner's locals at the start of a connection
\* (client.py 54-56, 276)
ConnStart ==
    /\ speaker_buffers = [k \in Keys |-> << >>]
    /\ buf_keys = << >>
    /\ idle_tasks = [k \in Keys |-> 0]
    /\ tasks = [id \in 1..MaxMsgs |-> NoTask]
    /\ msg_pc = "recv"
    /\ msg_flush = 0
    /\ conn_pc = "serving"
    /\ td_keys = << >>
    /\ td_flush = 0
    /\ td_aborted = FALSE
    /\ ws_closed = FALSE
    /\ shutdown_event = FALSE
    /\ main_pc = "wait"
    /\ nrecv = 0
    /\ received = [k \in Keys |-> << >>]
    /\ flushes = << >>
    /\ comments = << >>
    /\ sd_snapshot = [taken |-> FALSE, bufs |-> [k \in Keys |-> << >>], nflush |-> 0]
    /\ late_fire = FALSE

Init ==
    /\ lines_per_inference \in 0..MaxThreshold
    /\ idle_flush_seconds \in {0, 1}
    /\ ConnStart
    /\ DetIdle
    /\ SanIdle
    /\ MainIdle
    /\ GenIdle
    /\ SessIdle

\* the dict's keys after speaker_buffers.setdefault(key, [])
SetDefaultKeys(ks, key) ==
    IF \E i \in 1..Len(ks) : ks[i] = key THEN ks ELSE Append(ks, key)

\* process_messages, subtitle branch (client.py 191-207): a non-empty line for
\* `speaker` is received and handled up to the next suspension
RecvSubtitle(speaker) ==
    /\ conn_pc = "serving" /\ msg_pc = "recv" /\ ~ws_closed
    /\ nrecv < MaxMsgs
    /\ LET key  == _speaker_key(speaker)
           text == LineText(nrecv + 1)
           buf  == Append(speaker_buffers[key], text)
           bufs == [speaker_buffers EXCEPT ![key] = buf]
           \* history: the line arrived while the key's idle task was asleep
           ts0  == IF idle_tasks[key] # 0 /\ tasks[idle_tasks[key]].st = "sleep"
                   THEN [tasks EXCEPT ![idle_tasks[key]].sup = nrecv + 1]
                   ELSE tasks
       IN  /\ nrecv' = nrecv + 1
           /\ received' = [received EXCEPT ![key] = Append(@, text)]
           /\ buf_keys' = SetDefaultKeys(buf_keys, key)
           /\ IF ThresholdReached(Len(buf))
              THEN \* flush_buffer(speaker) up to its exchange
                   LET f == flush_buffer(bufs, flushes, key, "threshold", 0)
                   IN  /\ speaker_buffers' = f.bufs
                       /\ flushes' = f.fl
                       /\ msg_flush' = Len(f.fl)
                       /\ msg_pc' = "flush_exch"
                       /\ tasks' = ts0
                       /\ UNCHANGED idle_tasks
              ELSE LET s == schedule_idle_flush(ts0, idle_tasks, flushes, key, nrecv + 1)
                   IN  /\ speaker_buffers' = bufs
                       /\ tasks' = s.ts
                       /\ idle_tasks' = s.it
                       /\ flushes' = s.fl
                       /\ msg_pc' = LoopTop
                       /\ UNCHANGED msg_flush
    /\ UNCHANGED << lines_per_inference, idle_flush_seconds, conn_pc, td_keys, td_flush,
                    td_aborted, ws_closed, shutdown_event, main_pc, comments,
                    sd_snapshot, late_fire >>
    /\ UNCHANGED otherVars

\* the threshold flush's exchange returns its comment, generated or
\* the fallback (geminicli_runner.py 366-378); ws.send; cancel_idle_task
\* (client.py 83-102, 204-205)
MsgFlushDone ==
    /\ msg_pc = "flush_exch"
    /\ LET key == flushes[msg_flush].key
           fl1 == [flushes EXCEPT ![msg_flush].out = SendOutcome]
       IN  IF ws_closed
           THEN /\ flushes' = fl1
                /\ msg_pc' = "failed"
                /\ UNCHANGED << tasks, idle_tasks >>
           ELSE LET x == cancel_idle_task(tasks, idle_tasks, fl1, key)
                IN  /\ flushes' = x.fl
                    /\ tasks' = x.ts
                    /\ idle_tasks' = x.it
                    /\ msg_pc' = LoopTop
    /\ msg_flush' = 0
    /\ UNCHANGED << lines_per_inference, idle_flush_seconds, speaker_buffers, buf_keys,
                    conn_pc, td_keys, td_flush, td_aborted, ws_closed, shutdown_event,
                    main_pc, nrecv, received, comments, sd_snapshot, late_fire >>
    /\ UNCHANGED otherVars

\* a comment branch that starts the exchange and goes on receiving
RecvComment_nowait ==
    /\ conn_pc = "serving" /\ msg_pc = "recv" /\ ~ws_closed
    /\ nrecv < MaxMsgs
    /\ nrecv' = nrecv + 1
    /\ comments' = Append(comments, "inflight")
    /\ msg_pc' = LoopTop
    /\ UNCHANGED << lines_per_inference, idle_flush_seconds, speaker_buffers, buf_keys,
                    idle_tasks, tasks, msg_flush, conn_pc, td_keys, td_flush, td_aborted,
                    ws_closed, shutdown_event, main_pc, received, flushes, sd_snapshot,
                    late_fire >>
    /\ UNCHANGED otherVars

\* process_messages, comment branch (client.py 158-165): a non-empty comment
\* is received and its exchange started
RecvComment ==
    /\ conn_pc = "serving" /\ msg_pc = "recv" /\ ~ws_closed
    /\ nrecv < MaxMsgs
    /\ nrecv' = nrecv + 1
    /\ comments' = Append(comments, "inflight")
    /\ msg_pc' = "comment_exch"
    /\ UNCHANGED << lines_per_inference, idle_flush_seconds, speaker_buffers, buf_keys,
                    idle_tasks, tasks, msg_flush, conn_pc, td_keys, td_flush, td_aborted,
                    ws_closed, shutdown_event, main_pc, received, flushes, sd_snapshot,
                    late_fire >>
    /\ UNCHANGED otherVars

\* the immediate comment's exchange returns; ws.send (client.py 165-186)
MsgCommentDone ==
    /\ msg_pc = "comment_exch"
    /\ comments' = [comments EXCEPT ![Len(comments)] = SendOutcome]
    /\ msg_pc' = IF ws_closed THEN "failed" ELSE LoopTop
    /\ UNCHANGED << lines_per_inference, idle_flush_seconds, speaker_buffers, buf_keys,
                    idle_tasks, tasks, msg_flush, conn_pc, td_keys, td_flush, td_aborted,
                    ws_closed, shutdown_event, main_pc, nrecv, received, flushes,
                    sd_snapshot, late_fire >>
    /\ UNCHANGED otherVars

\* process_messages without the drop of client.py 191-193: a subtitle event
\* without text is appended to its speaker's buffer
RecvOther_buffering(m) ==
    /\ conn_pc = "serving" /\ msg_pc = "recv" /\ ~ws_closed
    /\ nrecv < MaxMsgs
    /\ Classify(m) \in {"drop", "raise"}
    /\ nrecv' = nrecv + 1
    /\ msg_pc' = IF Classify(m) = "raise" THEN "failed" ELSE LoopTop
    /\ speaker_buffers' =
          IF m.type = "subtitle" /\ m.text_empty
          THEN [speaker_buffers EXCEPT ![_speaker_key(NoneVal)] = Append(@, << >>)]
          ELSE speaker_buffers
    /\ UNCHANGED << lines_per_inference, idle_flush_seconds, buf_keys,
                    idle_tasks, tasks, msg_flush, conn_pc, td_keys, td_flush, td_aborted,
                    ws_closed, shutdown_event, main_pc, received, flushes, comments,
                    sd_snapshot, late_fire >>
    /\ UNCHANGED otherVars

\* process_messages receives a message that is neither a subtitle nor a
\* comment with text (client.py 139-193)
RecvOther(m) ==
    /\ conn_pc = "serving" /\ msg_pc = "recv" /\ ~ws_closed
    /\ nrecv < MaxMsgs
    /\ Classify(m) \in {"drop", "raise"}
    /\ nrecv' = nrecv + 1
    /\ msg_pc' = IF Classify(m) = "raise" THEN "failed" ELSE LoopTop
    /\ UNCHANGED << lines_per_inference, idle_flush_seconds, speaker_buffers, buf_keys,
                    idle_tasks, tasks, msg_flush, conn_pc, td_keys, td_flush, td_aborted,
                    ws_closed, shutdown_event, main_pc, received, flushes, comments,
                    sd_snapshot, late_fire >>
    /\ UNCHANGED otherVars

\* the bounded receive times out and the loop sees the shutdown event
\* (client.py 125-134)
MsgSeesShutdown ==
    /\ msg_pc = "recv" /\ shutdown_event
    /\ msg_pc' = "done"
    /\ UNCHANGED << lines_per_inference, idle_flush_seconds, speaker_buffers, buf_keys,
                    idle_tasks, tasks, msg_flush, conn_pc, td_keys, td_flush, td_aborted,
                    ws_closed, shutdown_event, main_pc, nrecv, received, flushes,
                    comments, sd_snapshot, late_fire >>
    /\ UNCHANGED otherVars

\* ws.recv() raises ConnectionClosed (client.py 135-137)
RecvClosed ==
    /\ msg_pc = "recv" /\ ws_closed
    /\ msg_pc' = "done"
    /\ UNCHANGED << lines_per_inference, idle_flush_seconds, speaker_buffers, buf_keys,
                    idle_tasks, tasks, msg_flush, conn_pc, td_keys, td_flush, td_aborted,
                    ws_closed, shutdown_event, main_pc, nrecv, received, flushes,
                    comments, sd_snapshot, late_fire >>
    /\ UNCHANGED otherVars

\* the peer closes the transport, or it drops
PeerClose ==
    /\ conn_pc # "closed" /\ ~ws_closed
    /\ ws_closed' = TRUE
    /\ UNCHANGED << lines_per_inference, idle_flush_seconds, speaker_buffers, buf_keys,
                    idle_tasks, tasks, msg_pc, msg_flush, conn_pc, td_keys, td_flush,
                    td_aborted, shutdown_event, main_pc, nrecv, received, flushes,
                    comments, sd_snapshot, late_fire >>
    /\ UNCHANGED otherVars

\* idle_wait_and_flush: the sleep ends and flush_buffer runs up to its exchange
\* (client.py 104-107, 74-83)
IdleFire(id) ==
    /\ tasks[id].st = "sleep"
    /\ LET key == tasks[id].key
           buf == speaker_buffers[key]
       IN  IF buf = << >>
           THEN /\ tasks' = [tasks EXCEPT ![id].st = "done", ![id].end = "returned"]
                /\ UNCHANGED << speaker_buffers, flushes, late_fire >>
           ELSE LET f == flush_buffer(speaker_buffers, flushes, key, "idle", id)
                IN  /\ speaker_buffers' = f.bufs
                    /\ flushes' = f.fl
                    /\ tasks' = [tasks EXCEPT ![id].st = "exch", ![id].flush = Len(f.fl)]
                    /\ late_fire' = (late_fire \/ conn_pc = "closed")
    /\ UNCHANGED << lines_per_inference, idle_flush_seconds, buf_keys, idle_tasks, msg_pc,
                    msg_flush, conn_pc, td_keys, td_flush, td_aborted, ws_closed,
                    shutdown_event, main_pc, nrecv, received, comments, sd_snapshot >>
    /\ UNCHANGED otherVars

\* the idle flush's exchange returns its comment, generated or
\* the fallback (geminicli_runner.py 366-378); ws.send (client.py 83-102); a failed
\* send ends the task with the exception
IdleDone(id) ==
    /\ tasks[id].st = "exch"
    /\ flushes' = [flushes EXCEPT ![tasks[id].flush].out = SendOutcome]
    /\ tasks' = [tasks EXCEPT ![id].st = IF ws_closed THEN "failed" ELSE "done",
                              ![id].end = IF ws_closed THEN "raised_error" ELSE "returned"]
    /\ UNCHANGED << lines_per_inference, idle_flush_seconds, speaker_buffers, buf_keys,
                    idle_tasks, msg_pc, msg_flush, conn_pc, td_keys, td_flush, td_aborted,
                    ws_closed, shutdown_event, main_pc, nrecv, received, comments,
                    sd_snapshot, late_fire >>
    /\ UNCHANGED otherVars

(***************************************************************************)
(* Teardown (client.py 226-240).  flush_buffer on an empty buffer returns  *)
(* without suspending, so the loop runs on to the next non-empty buffer.   *)
(***************************************************************************)
RECURSIVE SkipEmpty(_, _)
SkipEmpty(ks, bufs) ==
    IF ks = << >> THEN << >>
    ELSE IF bufs[Head(ks)] = << >> THEN SkipEmpty(Tail(ks), bufs)
    ELSE ks

\* the teardown loop from `ks` on: the next flush up to its exchange, or, the
\* keys exhausted, cancel_all_idle_tasks() and ws.close()
TeardownFrom(ks, fl) ==
    LET rest == SkipEmpty(ks, speaker_buffers)
    IN  IF rest = << >>
        THEN LET x == cancel_all_idle_tasks(tasks, idle_tasks, fl)
             IN  /\ tasks' = x.ts
                 /\ idle_tasks' = x.it
                 /\ flushes' = x.fl
                 /\ conn_pc' = "closed"
                 /\ ws_closed' = TRUE
                 /\ td_keys' = << >>
                 /\ td_flush' = 0
                 /\ UNCHANGED speaker_buffers
        ELSE LET f == flush_buffer(speaker_buffers, fl, Head(rest), "teardown", 0)
             IN  /\ speaker_buffers' = f.bufs
                 /\ flushes' = f.fl
                 /\ td_flush' = Len(f.fl)
                 /\ td_keys' = Tail(rest)
                 /\ conn_pc' = "teardown"
                 /\ UNCHANGED << tasks, idle_tasks, ws_closed >>

\* `await msg_task` returns or raises, or the cancelled handler has closed the
\* transport: the finally block starts (client.py 215-232)
ConnTeardown ==
    /\ \/ conn_pc = "serving" /\ msg_pc \in {"done", "failed"}
       \/ conn_pc = "cancel_closing"
    /\ TeardownFrom(buf_keys, flushes)
    /\ UNCHANGED << lines_per_inference, idle_flush_seconds, buf_keys, msg_pc, msg_flush,
                    td_aborted, shutdown_event, main_pc, nrecv, received, comments,
                    sd_snapshot, late_fire >>
    /\ UNCHANGED otherVars

\* a teardown flush's exchange returns its comment, generated or
\* the fallback (geminicli_runner.py 366-378); ws.send, its exception swallowed;
\* the loop goes on (client.py 230-237)
TdFlushDone ==
    /\ conn_pc = "teardown"
    /\ TeardownFrom(td_keys, [flushes EXCEPT ![td_flush].out = SendOutcome])
    /\ UNCHANGED << lines_per_inference, idle_flush_seconds, buf_keys, msg_pc, msg_flush,
                    td_aborted, shutdown_event, main_pc, nrecv, received, comments,
                    sd_snapshot, late_fire >>
    /\ UNCHANGED otherVars

(***************************************************************************)
(* Shutdown (client.py 278-281, 318-330, 366).                             *)
(***************************************************************************)
\* signal_handler(): the shutdown event is set
Shutdown ==
    /\ ~shutdown_event /\ main_pc = "wait"
    /\ shutdown_event' = TRUE
    /\ sd_snapshot' = [taken |-> TRUE, bufs |-> speaker_buffers, nflush |-> Len(flushes)]
    /\ UNCHANGED << lines_per_inference, idle_flush_seconds, speaker_buffers, buf_keys,
                    idle_tasks, tasks, msg_pc, msg_flush, conn_pc, td_keys, td_flush,
                    td_aborted, ws_closed, main_pc, nrecv, received, flushes, comments,
                    late_fire >>
    /\ UNCHANGED otherVars

\* main_with_runner: connection_task.cancel() after the shutdown event.
\*   serving:  CancelledError at `await msg_task`, which cancels msg_task; the
\*             handler closes the transport (client.py 217-225);
\*   teardown: CancelledError out of the teardown flush, past `except
\*             Exception`, so that the rest of the finally block is skipped;
\*             the outer finally closes the transport (client.py 228-240).
MainCancel ==
    /\ shutdown_event /\ main_pc = "wait"
    /\ main_pc' = "cancelling"
    /\ CASE conn_pc = "serving" ->
              /\ msg_pc' = IF msg_pc \in {"done", "failed"} THEN msg_pc ELSE "cancelled"
              /\ flushes' = AbandonFlush(flushes, msg_flush)
              /\ comments' = IF msg_pc = "comment_exch"
                             THEN [comments EXCEPT ![Len(comments)] = "cancelled"]
                             ELSE comments
              /\ msg_flush' = 0
              /\ ws_closed' = TRUE
              /\ conn_pc' = "cancel_closing"
              /\ UNCHANGED << td_flush, td_keys, td_aborted >>
         [] conn_pc = "teardown" ->
              /\ flushes' = AbandonFlush(flushes, td_flush)
              /\ td_flush' = 0
              /\ td_keys' = << >>
              /\ td_aborted' = TRUE
              /\ ws_closed' = TRUE
              /\ conn_pc' = "closed"
              /\ UNCHANGED << msg_pc, msg_flush, comments >>
         [] OTHER ->
              UNCHANGED << msg_pc, msg_flush, flushes, comments, ws_closed, conn_pc,
                           td_flush, td_keys, td_aborted >>
    /\ UNCHANGED << lines_per_inference, idle_flush_seconds, speaker_buffers, buf_keys,
                    idle_tasks, tasks, shutdown_event, nrecv, received, sd_snapshot,
                    late_fire >>
    /\ UNCHANGED otherVars

\* main_with_runner returns once connection_task has ended, and asyncio.run
\* cancels every task still alive (client.py 326-330, 366)
MainExit ==
    /\ main_pc = "cancelling" /\ conn_pc = "closed"
    /\ main_pc' = "done"
    /\ tasks' = [id \in DOMAIN tasks |-> CancelTask(tasks, id)[id]]
    /\ flushes' = CancelAllFlush(flushes, tasks, DOMAIN tasks)
    /\ UNCHANGED << lines_per_inference, idle_flush_seconds, speaker_buffers, buf_keys,
                    idle_tasks, msg_pc, msg_flush, conn_pc, td_keys, td_flush, td_aborted,
                    ws_closed, shutdown_event, nrecv, received, comments, sd_snapshot,
                    late_fire >>
    /\ UNCHANGED otherVars

\* handle_connection has ended without a shutdown signal: `await
\* connection_task` returns and the backoff is reset, or raises what the
\* message loop raised and the loop goes to its backoff sleep
\* (client.py 216, 332-345)
MainConnEnded ==
    /\ main_pc = "wait" /\ conn_pc = "closed" /\ ~shutdown_event
    /\ main_pc' = IF msg_pc = "failed" THEN "backoff_sleep" ELSE "reset_reconnect"
    /\ UNCHANGED << lines_per_inference, idle_flush_seconds, speaker_buffers, buf_keys,
                    idle_tasks, tasks, msg_pc, msg_flush, conn_pc, td_keys, td_flush,
                    td_aborted, ws_closed, shutdown_event, nrecv, received, flushes,
                    comments, sd_snapshot, late_fire >>
    /\ UNCHANGED otherVars

Next ==
    \/ \E s \in Speakers : RecvSubtitle(s)
    \/ MsgFlushDone
    \/ RecvComment
    \/ \E m \in OtherInbound : RecvOther(m)
    \/ MsgCommentDone
    \/ MsgSeesShutdown
    \/ RecvClosed
    \/ PeerClose
    \/ \E id \in 1..MaxMsgs : IdleFire(id)
    \/ \E id \in 1..MaxMsgs : IdleDone(id)
    \/ ConnTeardown
    \/ TdFlushDone
    \/ Shutdown
    \/ MainCancel
    \/ MainExit
    \/ MainConnEnded

Spec == Init /\ [][Next]_vars

\* comment and subtitle events without text, in the envelope and the legacy shape
EmptyTextEvents ==
    { m \in OtherInbound :
        /\ m.json /\ m.obj /\ (m.env => m.params_obj)
        /\ m.type \in {"comment", "subtitle"}
        /\ m.text_empty }

\* the connection engine with a peer whose only messages besides subtitles and
\* comments with text are comment and subtitle events without text
EvtNext ==
    \/ \E s \in Speakers : RecvSubtitle(s)
    \/ MsgFlushDone
    \/ RecvComment
    \/ \E m \in EmptyTextEvents : RecvOther(m)
    \/ MsgCommentDone
    \/ MsgSeesShutdown
    \/ RecvClosed
    \/ PeerClose
    \/ \E id \in 1..MaxMsgs : IdleFire(id)
    \/ \E id \in 1..MaxMsgs : IdleDone(id)
    \/ ConnTeardown
    \/ TdFlushDone
    \/ Shutdown
    \/ MainCancel
    \/ MainExit
    \/ MainConnEnded

EvtSpec == Init /\ [][EvtNext]_vars

(***************************************************************************)
(* The completion detector and the session bridge's exchange               *)
(* (geminicli_runner.py 117-220, 281-324).                                 *)
(***************************************************************************)
\* Phase 2 on a marker line: `if body2: last = body2`, mutated to keep the first
TrackedAfterMarker_keepfirst(l, body2) == l

\* Phase 2 on a marker line: `if body2: last = body2`
TrackedAfterMarker(l, body2) == IF body2 # << >> THEN body2 ELSE l

\* one turn of read_until_confirmed_return_last's loop on a line read; ret
\* says that the loop returned `last` as confirmed
Phase2Step(l, fe, il, line) ==
    LET cont2 == Content(line)
        same  == [ret |-> FALSE, last |-> l, fe |-> fe, il |-> il]
    IN  IF HasMarker(cont2)
        THEN LET body2 == MarkerBody(cont2)
             IN  [same EXCEPT !.last = TrackedAfterMarker(l, body2),
                              !.fe = IF body2 # << >> THEN FALSE ELSE fe]
        ELSE IF IsSpinner(cont2) THEN [same EXCEPT !.il = TRUE, !.fe = FALSE]
        ELSE IF cont2 = << >> /\ l # NoText
             THEN [same EXCEPT !.fe = IF ~il THEN TRUE ELSE fe]
        ELSE IF fe /\ StartsWithUsing(cont2) THEN [same EXCEPT !.ret = TRUE]
        ELSE IF cont2 # << >> /\ ~IsSpinner(cont2) THEN [same EXCEPT !.il = FALSE]
        ELSE same

\* Phase 1's test of a marker line's body: a new answer, to be tracked
IsNewAnswer(body, skip) == body # << >> /\ (skip = NoText \/ body # skip)

\* the session after initialize(): _last_answer is None, or the system prompt's
\* answer (geminicli_runner.py 55, 237-239); the child's whole output is `script`
DetInit ==
    /\ lines_per_inference = 5
    /\ idle_flush_seconds = 0
    /\ ConnStart
    /\ SanIdle
    /\ MainIdle
    /\ GenIdle
    /\ SessIdle
    /\ script \in Scripts
    /\ pos = 0
    /\ xstart = 0
    /\ det_pc = "idle"
    /\ skip_text = NoText
    /\ last = NoText
    /\ found_empty_after_diamond = FALSE
    /\ is_loading = FALSE
    /\ answer = NoText
    /\ how = "none"
    /\ last_answer \in {NoText, HelloWorld}
    /\ last_answer_src = "init"
    /\ exch_result = "none"
    /\ track_from = 0

\* _wait_answer returns `a`
Return(a, h) ==
    /\ det_pc' = "returned"
    /\ answer' = a
    /\ how' = h
    /\ UNCHANGED << last, found_empty_after_diamond, is_loading, track_from >>

\* _send_and_receive_async sends the prompt and calls
\* _wait_answer(skip_text=self._last_answer) (geminicli_runner.py 295-304)
StartExchange ==
    /\ det_pc = "idle"
    /\ det_pc' = "seek"
    /\ skip_text' = last_answer
    /\ xstart' = pos
    /\ last' = NoText
    /\ found_empty_after_diamond' = FALSE
    /\ is_loading' = FALSE
    /\ answer' = NoText
    /\ how' = "none"
    /\ exch_result' = "none"
    /\ track_from' = 0
    /\ UNCHANGED << script, pos, last_answer, last_answer_src >>
    /\ UNCHANGED notDetVars

\* Phase 1 reads a line (geminicli_runner.py 188-216)
SeekLine ==
    /\ det_pc = "seek" /\ pos < Len(script)
    /\ pos' = pos + 1
    /\ LET content == Content(script[pos + 1])
       IN  IF HasMarker(content)
           THEN LET body == MarkerBody(content)
                IN  /\ det_pc' = IF IsNewAnswer(body, skip_text) THEN "track" ELSE "drain"
                    /\ track_from' = IF IsNewAnswer(body, skip_text) THEN pos + 1 ELSE 0
                    /\ last' = body
                    /\ found_empty_after_diamond' = FALSE
                    /\ is_loading' = FALSE
           ELSE UNCHANGED << det_pc, track_from, last, found_empty_after_diamond,
                             is_loading >>
    /\ UNCHANGED << script, xstart, skip_text, answer, how, last_answer, last_answer_src,
                    exch_result >>
    /\ UNCHANGED notDetVars

\* Phase 2 reads a line while tracking a new answer (geminicli_runner.py 139-179,
\* 208-209)
TrackLine ==
    /\ det_pc = "track" /\ pos < Len(script)
    /\ pos' = pos + 1
    /\ LET r == Phase2Step(last, found_empty_after_diamond, is_loading, script[pos + 1])
       IN  /\ last' = r.last
           /\ found_empty_after_diamond' = r.fe
           /\ is_loading' = r.il
           /\ det_pc' = IF r.ret THEN "returned" ELSE "track"
           /\ answer' = IF r.ret THEN r.last ELSE answer
           /\ how' = IF r.ret THEN "confirmed" ELSE how
    /\ UNCHANGED << script, xstart, skip_text, last_answer, last_answer_src, exch_result,
                    track_from >>
    /\ UNCHANGED notDetVars

\* Phase 2 reads a line while draining a skipped block; its return is dropped
\* and Phase 1 goes on (geminicli_runner.py 139-179, 213-214)
DrainLine ==
    /\ det_pc = "drain" /\ pos < Len(script)
    /\ pos' = pos + 1
    /\ LET r == Phase2Step(last, found_empty_after_diamond, is_loading, script[pos + 1])
       IN  /\ last' = r.last
           /\ found_empty_after_diamond' = r.fe
           /\ is_loading' = r.il
           /\ det_pc' = IF r.ret THEN "seek" ELSE "drain"
    /\ UNCHANGED << script, xstart, skip_text, answer, how, last_answer, last_answer_src,
                    exch_result, track_from >>
    /\ UNCHANGED notDetVars

\* time.time() reaches the deadline: Phase 2 returns `last`, to the caller when
\* tracking, to Phase 1 when draining, and Phase 1 returns None
\* (geminicli_runner.py 139, 181-183, 188, 218-220)
DeadlineExpires ==
    /\ det_pc \in {"seek", "track", "drain"}
    /\ IF det_pc = "track" THEN Return(last, "deadline") ELSE Return(NoText, "deadline")
    /\ UNCHANGED << script, pos, xstart, skip_text, last_answer, last_answer_src,
                    exch_result >>
    /\ UNCHANGED notDetVars

\* readline raises (the child is silent for its timeout): the loop breaks
\* (geminicli_runner.py 140-144, 189-193)
ReadFails ==
    /\ det_pc \in {"seek", "track", "drain"}
    /\ CASE det_pc = "track" -> Return(last, "readfail")
         [] det_pc = "seek"  -> Return(NoText, "readfail")
         [] det_pc = "drain" -> /\ det_pc' = "seek"
                                /\ UNCHANGED << answer, how, last, found_empty_after_diamond,
                                                is_loading, track_from >>
    /\ UNCHANGED << script, pos, xstart, skip_text, last_answer, last_answer_src,
                    exch_result >>
    /\ UNCHANGED notDetVars

\* `if answer: self._last_answer = answer`, else TimeoutError
\* (geminicli_runner.py 308-317)
FinishExchange ==
    /\ det_pc = "returned"
    /\ IF Truthy(answer)
       THEN /\ last_answer' = answer
            /\ last_answer_src' = how
            /\ exch_result' = "answer"
            /\ det_pc' = "wait_prompt"
       ELSE /\ exch_result' = "timeout"
            /\ det_pc' = "idle"
            /\ UNCHANGED << last_answer, last_answer_src >>
    /\ UNCHANGED << script, pos, xstart, skip_text, last, found_empty_after_diamond,
                    is_loading, answer, how, track_from >>
    /\ UNCHANGED notDetVars

\* content matches the ready prompt's pattern
IsPrompt(line) == Content(line) # << >> /\ Content(line)[1] = ">"

\* _wait_prompt: expect() consumes the output up to the ready prompt, or times
\* out and consumes nothing (geminicli_runner.py 98-115, 313)
WaitPrompt ==
    /\ det_pc = "wait_prompt"
    /\ det_pc' = "idle"
    /\ \/ \E i \in (pos + 1)..Len(script) :
            /\ IsPrompt(script[i])
            /\ \A j \in (pos + 1)..(i - 1) : ~IsPrompt(script[j])
            /\ pos' = i
       \/ pos' = pos
    /\ UNCHANGED << script, xstart, skip_text, last, found_empty_after_diamond, is_loading,
                    answer, how, last_answer, last_answer_src, exch_result, track_from >>
    /\ UNCHANGED notDetVars

DetNext ==
    \/ StartExchange
    \/ SeekLine
    \/ TrackLine
    \/ DrainLine
    \/ DeadlineExpires
    \/ ReadFails
    \/ FinishExchange
    \/ WaitPrompt

DetSpec == DetInit /\ [][DetNext]_vars

(***************************************************************************)
(* The sanitizer (geminicli_runner.py 17-32, 248-261).  A text is a        *)
(* sequence of characters; a full-width character, and the backquote, is   *)
(* named by its code point.                                                *)
(***************************************************************************)
\* _SPECIAL_CHAR_MAP's items without the last one
SPECIAL_CHAR_MAP_without_tilde ==
    << << "/", "U+FF0F" >>, << "!", "U+FF01" >>, << ".", "U+FF0E" >>, << "@", "U+FF20" >>,
       << "#", "U+FF03" >>, << "$", "U+FF04" >>, << "(", "U+FF08" >>, << ")", "U+FF09" >>,
       << "U+0060", "U+FF40" >>, << "|", "U+FF5C" >>, << "&", "U+FF06" >>, << ";", "U+FF1B" >>,
       << "\\", "U+FF3C" >> >>

\* _SPECIAL_CHAR_MAP.items(), in the dict's order
SPECIAL_CHAR_MAP ==
    << << "/", "U+FF0F" >>, << "!", "U+FF01" >>, << ".", "U+FF0E" >>, << "@", "U+FF20" >>,
       << "#", "U+FF03" >>, << "$", "U+FF04" >>, << "(", "U+FF08" >>, << ")", "U+FF09" >>,
       << "U+0060", "U+FF40" >>, << "|", "U+FF5C" >>, << "&", "U+FF06" >>, << ";", "U+FF1B" >>,
       << "\\", "U+FF3C" >>, << "~", "U+FF5E" >> >>

\* the 14 reserved characters
Reserved == {"/", "!", ".", "@", "#", "$", "(", ")", "U+0060", "|", "&", ";", "\\", "~"}

\* their full-width forms
FullWidth ==
    {"U+FF0F", "U+FF01", "U+FF0E", "U+FF20", "U+FF03", "U+FF04", "U+FF08", "U+FF09",
     "U+FF40", "U+FF5C", "U+FF06", "U+FF1B", "U+FF3C", "U+FF5E"}

\* the characters of the enumerated texts
Chars == Reserved \cup FullWidth \cup {"a", "LF"}

Texts == SeqsUpTo(Chars, MaxTextLen)

\* str.replace(half_char, full_char), both one character long
Replace(text, half_char, full_char) ==
    [i \in 1..Len(text) |-> IF text[i] = half_char THEN full_char ELSE text[i]]

\* the loop over the map's items (geminicli_runner.py 257-259)
RECURSIVE ReplaceAll(_, _)
ReplaceAll(sanitized, items) ==
    IF items = << >> THEN sanitized
    ELSE ReplaceAll(Replace(sanitized, Head(items)[1], Head(items)[2]), Tail(items))

_sanitize_text(text) ==
    IF text = << >> THEN text ELSE ReplaceAll(text, SPECIAL_CHAR_MAP)

SanInit ==
    /\ lines_per_inference = 5
    /\ idle_flush_seconds = 0
    /\ ConnStart
    /\ DetIdle
    /\ MainIdle
    /\ GenIdle
    /\ SessIdle
    /\ san_in \in Texts
    /\ san_out = << >>
    /\ san_out2 = << >>
    /\ san_pc = "in"

\* _sanitize_text(text), as in build_prompt (geminicli_runner.py 266)
Sanitize ==
    /\ san_pc = "in"
    /\ san_out' = _sanitize_text(san_in)
    /\ san_pc' = "once"
    /\ UNCHANGED << san_in, san_out2 >>
    /\ UNCHANGED notSanVars

\* the built prompt, holding the sanitized text, is sanitized again in
\* _send_and_receive_async (geminicli_runner.py 290)
SanitizeAgain ==
    /\ san_pc = "once"
    /\ san_out2' = _sanitize_text(san_out)
    /\ san_pc' = "twice"
    /\ UNCHANGED << san_in, san_out >>
    /\ UNCHANGED notSanVars

SanNext ==
    \/ Sanitize
    \/ SanitizeAgain

SanSpec == SanInit /\ [][SanNext]_vars

(***************************************************************************)
(* main_with_runner (client.py 243-349) and _initialize_async              *)
(* (geminicli_runner.py 57-96).                                            *)
(***************************************************************************)
\* configured reconnect_initial_ms and reconnect_max_ms
InitialMsValues == {-500, 0, 500, 7000}
MaxMsValues == {0, 5000}

\* backoff_ms = min(backoff_ms * 2, reconnect_max_ms), without the doubling
NextBackoff_nodouble(b) == Min(b, reconnect_max_ms)

\* backoff_ms = min(backoff_ms * 2, reconnect_max_ms) (client.py 345)
NextBackoff(b) == Min(b * 2, reconnect_max_ms)

\* sleep_ms = min(backoff_ms, reconnect_max_ms) (client.py 342)
SleepMs(b) == Min(b, reconnect_max_ms)

MainInit ==
    /\ lines_per_inference = 5
    /\ idle_flush_seconds = 0
    /\ ConnStart
    /\ DetIdle
    /\ SanIdle
    /\ GenIdle
    /\ SessIdle
    /\ m_pc = "init"
    /\ init_outcome = "none"
    /\ initialized = FALSE
    /\ reconnect_initial_ms \in InitialMsValues
    /\ reconnect_max_ms \in MaxMsValues
    /\ backoff_ms = 0
    /\ force_armed = FALSE
    /\ attempts = 0
    /\ fails = 0
    /\ sleeps = << >>

\* pexpect.spawn raises: _initialize_async raises and main_with_runner returns
\* (geminicli_runner.py 66-71, client.py 256-260)
InitSpawnFails ==
    /\ m_pc = "init"
    /\ init_outcome' = "spawn_failed"
    /\ m_pc' = "ended"
    /\ UNCHANGED << initialized, reconnect_initial_ms, reconnect_max_ms, backoff_ms,
                    force_armed, attempts, fails, sleeps, shutdown_event >>
    /\ UNCHANGED notMainVars

\* the child is started and the wait for its first prompt ends: the prompt is
\* seen, the wait times out, or expect raises (the child has exited); in each
\* case _initialize_async goes on and sets _initialized, and main_with_runner
\* enters its loop with backoff_ms = max(0, reconnect_initial_ms)
\* (geminicli_runner.py 81-95, client.py 301)
InitStarts(outcome) ==
    /\ m_pc = "init"
    /\ init_outcome' = outcome
    /\ initialized' = TRUE
    /\ backoff_ms' = Max(0, reconnect_initial_ms)
    /\ m_pc' = "loop_top"
    /\ UNCHANGED << reconnect_initial_ms, reconnect_max_ms, force_armed, attempts, fails,
                    sleeps, shutdown_event >>
    /\ UNCHANGED notMainVars

\* the loop's test passes and a connection task is created (client.py 302-321)
Connect ==
    /\ m_pc = "loop_top" /\ ~shutdown_event
    /\ attempts < MaxAttempts
    /\ attempts' = attempts + 1
    /\ m_pc' = "in_connection"
    /\ UNCHANGED << init_outcome, initialized, reconnect_initial_ms, reconnect_max_ms,
                    backoff_ms, force_armed, fails, sleeps, shutdown_event >>
    /\ UNCHANGED notMainVars

\* handle_connection returns: a clean session, the backoff is reset
\* (client.py 333-334)
ConnectionReturns ==
    /\ m_pc = "in_connection" /\ ~shutdown_event
    /\ backoff_ms' = reconnect_initial_ms
    /\ fails' = 0
    /\ m_pc' = "loop_top"
    /\ UNCHANGED << init_outcome, initialized, reconnect_initial_ms, reconnect_max_ms,
                    force_armed, attempts, sleeps, shutdown_event >>
    /\ UNCHANGED notMainVars

\* handle_connection raises (the connect failed, or the message loop raised):
\* the loop sleeps sleep_ms (client.py 338-344)
ConnectionRaises ==
    /\ m_pc = "in_connection" /\ ~shutdown_event
    /\ fails' = fails + 1
    /\ sleeps' = Append(sleeps, SleepMs(backoff_ms))
    /\ m_pc' = "sleeping"
    /\ UNCHANGED << init_outcome, initialized, reconnect_initial_ms, reconnect_max_ms,
                    backoff_ms, force_armed, attempts, shutdown_event >>
    /\ UNCHANGED notMainVars

\* asyncio.sleep(sleep_ms / 1000.0) returns after the whole delay; the backoff
\* is doubled and the loop's test is next (client.py 344-345, 302)
BackoffElapsed ==
    /\ m_pc = "sleeping"
    /\ backoff_ms' = NextBackoff(backoff_ms)
    /\ m_pc' = "loop_top"
    /\ UNCHANGED << init_outcome, initialized, reconnect_initial_ms, reconnect_max_ms,
                    force_armed, attempts, fails, sleeps, shutdown_event >>
    /\ UNCHANGED notMainVars

\* SIGINT or SIGTERM: signal_handler sets the event and starts the force_exit
\* thread (client.py 278-294)
Signal ==
    /\ m_pc \in {"loop_top", "in_connection", "sleeping"} /\ ~shutdown_event
    /\ shutdown_event' = TRUE
    /\ force_armed' = TRUE
    /\ UNCHANGED << m_pc, init_outcome, initialized, reconnect_initial_ms,
                    reconnect_max_ms, backoff_ms, attempts, fails, sleeps >>
    /\ UNCHANGED notMainVars

\* the shutdown wait completes asyncio.wait: the connection task is cancelled
\* and awaited, and the loop is left (client.py 318-330)
CancelConnection ==
    /\ m_pc = "in_connection" /\ shutdown_event
    /\ m_pc' = "ended"
    /\ UNCHANGED << init_outcome, initialized, reconnect_initial_ms, reconnect_max_ms,
                    backoff_ms, force_armed, attempts, fails, sleeps, shutdown_event >>
    /\ UNCHANGED notMainVars

\* the loop's test fails (client.py 302)
LoopExit ==
    /\ m_pc = "loop_top" /\ shutdown_event
    /\ m_pc' = "ended"
    /\ UNCHANGED << init_outcome, initialized, reconnect_initial_ms, reconnect_max_ms,
                    backoff_ms, force_armed, attempts, fails, sleeps, shutdown_event >>
    /\ UNCHANGED notMainVars

\* force_exit: two seconds after the signal the process is still running and
\* os._exit(1) ends it (client.py 283-292)
ForceExit ==
    /\ force_armed /\ m_pc \in {"loop_top", "in_connection", "sleeping"}
    /\ m_pc' = "killed"
    /\ UNCHANGED << init_outcome, initialized, reconnect_initial_ms, reconnect_max_ms,
                    backoff_ms, force_armed, attempts, fails, sleeps, shutdown_event >>
    /\ UNCHANGED notMainVars

MainNext ==
    \/ InitSpawnFails
    \/ \E o \in {"prompt_ready", "prompt_timeout", "prompt_error"} : InitStarts(o)
    \/ Connect
    \/ ConnectionReturns
    \/ ConnectionRaises
    \/ BackoffElapsed
    \/ Signal
    \/ CancelConnection
    \/ LoopExit
    \/ ForceExit

MainSpec == MainInit /\ [][MainNext]_vars

(***************************************************************************)
(* generate_comment_async and _extract_comment (geminicli_runner.py        *)
(* 326-378) and the dispatch of the comment by flush_buffer and by the     *)
(* comment branch of process_messages (client.py 82-102, 164-186).         *)
(*                                                                         *)
(* A raw answer is a sequence of characters, one token per character: an   *)
(* ANSI escape sequence is the one token "ESC", a space "SP", a line       *)
(* break "LF"; a character a string literal cannot hold is written by its  *)
(* code point.                                                             *)
(***************************************************************************)
\* the fixed fallback comment (geminicli_runner.py 371, 378; client.py 89, 172)
FallbackComment == << "U+3044", "U+3044", "U+306D", "U+FF01" >>

\* what str.strip() removes
StripChars == {"SP", "LF"}
\* the code fence
Fence == << "U+0060", "U+0060", "U+0060" >>
\* the tuple of startswith (geminicli_runner.py 339)
BulletPrefixes ==
    { << "-", "SP" >>, << "*", "SP" >>, << "1", ".", "SP" >>, << "U+30FB" >>,
      << "U+2714", "SP" >>, << "U+2713", "SP" >>, << "U+00BB", "SP" >> }
\* the tuple of role prefixes, in the order of the loop (geminicli_runner.py 342)
RolePrefixes ==
    << << "a", "s", "s", "i", "s", "t", "a", "n", "t", ":" >>,
       << "m", "o", "d", "e", "l", ":" >>,
       << "o", "u", "t", "p", "u", "t", ":" >> >>
\* the quote characters of the wrapping-quote test
QuoteChars == {"\"", "'"}

\* the pieces the enumerated raw answers are made of
Segments ==
    { << "a" >>, << "a", "b", "c" >>, << "SP" >>, << "LF" >>, << "ESC" >>,
      << "\"" >>, << "'" >>, Fence, << "-", "SP" >>, << "1", ".", "SP" >>,
      << "U+30FB" >>, << "m", "o", "d", "e", "l", ":" >>,
      << "O", "u", "t", "p", "u", "t", ":" >> }

RECURSIVE Concat(_)
Concat(ss) == IF ss = << >> THEN << >> ELSE Head(ss) \o Concat(Tail(ss))

\* every raw output the extractor is applied to
RawOutputs == { Concat(ss) : ss \in SeqsUpTo(Segments, MaxSegs) }

\* what _wait_answer can return to _send_and_receive_async as a truthy answer:
\* the stripped text after the marker on one line, ANSI sequences removed
Answers ==
    { r \in RawOutputs :
        /\ r # << >>
        /\ \A i \in 1..Len(r) : r[i] \notin {"LF", "ESC"}
        /\ r[1] # "SP"
        /\ r[Len(r)] # "SP" }

\* the configured max_output_chars (client.py 30: fallback 120)
MaxCharsValues == {-1, 0, 2, 120}

\* str.lower() on one character
Lower(c) ==
    CASE c = "O" -> "o"
      [] c = "U" -> "u"
      [] c = "T" -> "t"
      [] c = "P" -> "p"
      [] OTHER -> c

LowerAll(t) == [i \in 1..Len(t) |-> Lower(t[i])]

\* t.startswith(p)
StartsWith(t, p) == Len(t) >= Len(p) /\ SubSeq(t, 1, Len(p)) = p
\* t.endswith(p)
EndsWith(t, p) == Len(t) >= Len(p) /\ SubSeq(t, Len(t) - Len(p) + 1, Len(t)) = p

\* t[n:]
Drop(t, n) == IF n >= Len(t) THEN << >> ELSE SubSeq(t, n + 1, Len(t))
\* t[:n], for any integer n
Take(t, n) ==
    IF n >= Len(t) THEN t
    ELSE IF n >= 0 THEN SubSeq(t, 1, n)
    ELSE IF Len(t) + n <= 0 THEN << >>
    ELSE SubSeq(t, 1, Len(t) + n)

RECURSIVE LStripOf(_, _)
LStripOf(t, S) == IF t # << >> /\ Head(t) \in S THEN LStripOf(Tail(t), S) ELSE t

RECURSIVE RStripOf(_, _)
RStripOf(t, S) ==
    IF t # << >> /\ t[Len(t)] \in S THEN RStripOf(SubSeq(t, 1, Len(t) - 1), S) ELSE t

\* str.strip() and str.strip(chars)
StripOf(t, S) == RStripOf(LStripOf(t, S), S)

\* str.splitlines()
RECURSIVE SplitLines(_)
SplitLines(t) ==
    IF t = << >> THEN << >>
    ELSE IF \E i \in 1..Len(t) : t[i] = "LF"
         THEN LET i == CHOOSE j \in 1..Len(t) :
                           t[j] = "LF" /\ \A h \in 1..(j - 1) : t[h] # "LF"
              IN  << SubSeq(t, 1, i - 1) >> \o SplitLines(Drop(t, i))
         ELSE << t >>

\* geminicli_runner.py 336-337
StripFence(n) ==
    IF StartsWith(n, Fence) /\ EndsWith(n, Fence) THEN StripOf(n, {"U+0060"}) ELSE n

\* geminicli_runner.py 339-340
StripBullet(n) ==
    IF \E p \in BulletPrefixes : StartsWith(n, p)
    THEN StripOf(Drop(n, 2), StripChars)
    ELSE n

\* geminicli_runner.py 342-344: the loop over the role prefixes, from the i-th on
RECURSIVE StripRoles(_, _)
StripRoles(n, i) ==
    IF i > Len(RolePrefixes) THEN n
    ELSE IF StartsWith(LowerAll(n), RolePrefixes[i])
         THEN StripRoles(StripOf(Drop(n, Len(RolePrefixes[i])), StripChars), i + 1)
         ELSE StripRoles(n, i + 1)

\* geminicli_runner.py 346-349
StripQuotes(n) ==
    IF \E q \in QuoteChars : StartsWith(n, << q >>) /\ EndsWith(n, << q >>)
    THEN StripOf(Take(Drop(n, 1), -1), StripChars)
    ELSE n

\* the cut without the test of max_output_chars > 0
Truncate_unguarded(n, max) == IF Len(n) > max THEN Take(n, max) ELSE n

\* geminicli_runner.py 352-353
Truncate(n, max) == IF max > 0 /\ Len(n) > max THEN Take(n, max) ELSE n

\* the body of the loop for one non-empty stripped line
NormalizeLine(normalized, max) ==
    Truncate(StripQuotes(StripRoles(StripBullet(StripFence(normalized)), 1)), max)

\* the first line that is not blank once stripped, << >> when there is none
RECURSIVE FirstNonBlank(_)
FirstNonBlank(lines) ==
    IF lines = << >> THEN << >>
    ELSE IF StripOf(Head(lines), StripChars) # << >>
         THEN StripOf(Head(lines), StripChars)
         ELSE FirstNonBlank(Tail(lines))

_extract_comment(raw_output, max) ==
    LET cleaned_output == StripAnsi(raw_output)
        first == FirstNonBlank(SplitLines(cleaned_output))
        fallback == StripOf(cleaned_output, StripChars)
    IN  IF first # << >> THEN NormalizeLine(first, max)
        ELSE IF fallback # << >> THEN Take(fallback, max)
        ELSE << >>

\* generate_comment_async without its test of the extracted comment
generate_comment_async_nocheck(outcome, raw, max) ==
    IF outcome = "answer" THEN _extract_comment(raw, max) ELSE FallbackComment

\* what generate_comment_async returns when it returns: outcome is how
\* _send_and_receive_async ended (answer, timeout or error)
generate_comment_async(outcome, raw, max) ==
    IF outcome = "answer"
    THEN IF _extract_comment(raw, max) = << >> THEN FallbackComment
         ELSE _extract_comment(raw, max)
    ELSE FallbackComment

GenInit ==
    /\ lines_per_inference = 5
    /\ idle_flush_seconds = 0
    /\ ConnStart
    /\ DetIdle
    /\ SanIdle
    /\ MainIdle
    /\ SessIdle
    /\ g_pc = "recv"
    /\ g_path = "none"
    /\ max_output_chars \in MaxCharsValues
    /\ g_outcome = "none"
    /\ g_raw = << >>
    /\ g_extracted = << >>
    /\ g_comment = << >>
    /\ g_sent = << >>
    /\ g_nsent = 0

\* a caller awaits runner.generate_comment_async: flush_buffer (client.py 83) or
\* the comment branch (client.py 165)
GenStart(path) ==
    /\ g_pc = "recv"
    /\ g_nsent < MaxSends
    /\ g_pc' = "exchange"
    /\ g_path' = path
    /\ g_outcome' = "none"
    /\ g_raw' = << >>
    /\ g_extracted' = << >>
    /\ g_comment' = << >>
    /\ g_sent' = << >>
    /\ UNCHANGED << max_output_chars, g_nsent >>
    /\ UNCHANGED notGenVars

\* _send_and_receive_async returns the answer raw (geminicli_runner.py 367-372)
GenAnswer(raw) ==
    /\ g_pc = "exchange"
    /\ g_outcome' = "answer"
    /\ g_raw' = raw
    /\ g_extracted' = _extract_comment(raw, max_output_chars)
    /\ g_comment' = generate_comment_async("answer", raw, max_output_chars)
    /\ g_pc' = "dispatch"
    /\ UNCHANGED << g_path, max_output_chars, g_sent, g_nsent >>
    /\ UNCHANGED notGenVars

\* _send_and_receive_async raises TimeoutError (geminicli_runner.py 317) or another
\* Exception, e.g. of the child's send (geminicli_runner.py 322-324, 376-378)
GenRaises(outcome) ==
    /\ g_pc = "exchange"
    /\ g_outcome' = outcome
    /\ g_comment' = generate_comment_async(outcome, << >>, max_output_chars)
    /\ g_pc' = "dispatch"
    /\ UNCHANGED << g_path, max_output_chars, g_raw, g_extracted, g_sent, g_nsent >>
    /\ UNCHANGED notGenVars

\* the awaiting task is cancelled: CancelledError is re-raised
\* (geminicli_runner.py 373-375; client.py 85-86, 167-169)
GenCancelled ==
    /\ g_pc = "exchange"
    /\ g_outcome' = "cancelled"
    /\ g_pc' = "cancelled"
    /\ UNCHANGED << g_path, max_output_chars, g_raw, g_extracted, g_comment, g_sent,
                    g_nsent >>
    /\ UNCHANGED notGenVars

\* await ws.send(json.dumps(outgoing)) with params.text = comment (client.py
\* 91-102, 174-186); the loop goes on to its next receive
GenSend ==
    /\ g_pc = "dispatch"
    /\ g_sent' = g_comment
    /\ g_nsent' = g_nsent + 1
    /\ g_pc' = "recv"
    /\ UNCHANGED << g_path, max_output_chars, g_outcome, g_raw, g_extracted, g_comment >>
    /\ UNCHANGED notGenVars

\* ws.send raises: the exception leaves the caller
GenSendFails ==
    /\ g_pc = "dispatch"
    /\ g_pc' = "failed"
    /\ UNCHANGED << g_path, max_output_chars, g_outcome, g_raw, g_extracted, g_comment,
                    g_sent, g_nsent >>
    /\ UNCHANGED notGenVars

GenNext ==
    \/ \E path \in {"flush", "comment"} : GenStart(path)
    \/ \E raw \in Answers : GenAnswer(raw)
    \/ \E outcome \in {"timeout", "error"} : GenRaises(outcome)
    \/ GenCancelled
    \/ GenSend
    \/ GenSendFails

GenSpec == GenInit /\ [][GenNext]_vars

\* a raw output is about to be handed to _extract_comment
ExtInit ==
    /\ lines_per_inference = 5
    /\ idle_flush_seconds = 0
    /\ ConnStart
    /\ DetIdle
    /\ SanIdle
    /\ MainIdle
    /\ SessIdle
    /\ g_pc = "raw"
    /\ g_path = "none"
    /\ max_output_chars \in MaxCharsValues
    /\ g_outcome = "answer"
    /\ g_raw \in RawOutputs
    /\ g_extracted = << >>
    /\ g_comment = << >>
    /\ g_sent = << >>
    /\ g_nsent = 0

\* comment = self._extract_comment(raw_output=raw) (geminicli_runner.py 368)
ExtractRaw ==
    /\ g_pc = "raw"
    /\ g_extracted' = _extract_comment(g_raw, max_output_chars)
    /\ g_pc' = "extracted"
    /\ UNCHANGED << g_path, max_output_chars, g_outcome, g_raw, g_comment, g_sent,
                    g_nsent >>
    /\ UNCHANGED notGenVars

ExtNext == ExtractRaw

ExtSpec == ExtInit /\ [][ExtNext]_vars

(***************************************************************************)
(* The session's life: _initialize_async, close and the entry of           *)
(* _send_and_receive_async (geminicli_runner.py 57-96, 222-246, 281-324,   *)
(* 380-400), called one after the other.  s_ops is the history of the      *)
(* calls: their name, how they ended, the skip_text an exchange handed to  *)
(* _wait_answer, and the session's fields when they ended.                 *)
(***************************************************************************)
\* the answers an exchange or the system prompt can receive
SessAnswers == {Hello, NewAnswer}

\* how _send_system_prompt_async goes: its send raises, _wait_answer returns
\* None, the awaiting task is cancelled, or an answer arrives
SysOutcomes ==
    { [kind |-> k, text |-> NoText] : k \in {"send_failed", "timed_out", "cancelled"} }
    \cup { [kind |-> "answered", text |-> a] : a \in SessAnswers }

\* how an exchange on a ready session goes
ExchangeOutcomes ==
    { [kind |-> k, text |-> NoText] : k \in {"send_failed", "timeout", "cancelled"} }
    \cup { [kind |-> "answer", text |-> a] : a \in SessAnswers }

\* _initialize_async without its test of self._initialized
AlreadyInitialized_never(i) == FALSE

\* `if self._initialized: return` (geminicli_runner.py 59-61)
AlreadyInitialized(i) == i

\* close that leaves self._last_answer as it is
close_keeps_answer(c, i, l) == [child |-> "none", initialized |-> FALSE, last |-> l]

\* the session's fields after close() (geminicli_runner.py 384-399)
close(c, i, l) == [child |-> "none", initialized |-> FALSE, last |-> NoText]

\* the test at the entry of _send_and_receive_async (geminicli_runner.py 283)
SessionReady(c, i) == ~(c = "none" \/ ~i)

\* an exchange that forgets the last answer when it gets none
LastAnswerAfter_forgets(out, l) == IF out.kind = "answer" THEN out.text ELSE NoText

\* self._last_answer after _wait_answer returned: `if answer: self._last_answer
\* = answer`, else TimeoutError (geminicli_runner.py 308-317)
LastAnswerAfter(out, l) == IF out.kind = "answer" THEN out.text ELSE l

\* the record of a call in s_ops
Op(name, result, skip, c, i, l) ==
    [name |-> name, result |-> result, skip |-> skip, child |-> c, initialized |-> i,
     last |-> l]

SessInit ==
    /\ lines_per_inference = 5
    /\ idle_flush_seconds = 0
    /\ ConnStart
    /\ DetIdle
    /\ SanIdle
    /\ MainIdle
    /\ GenIdle
    /\ _child = "none"
    /\ _initialized = FALSE
    /\ _last_answer = NoText
    /\ system_prompt \in BOOLEAN
    /\ s_ops = << >>
    /\ s_spawned = 0
    /\ s_sys_sent = 0
    /\ s_prompts_sent = 0
    /\ s_quits = 0

\* await runner._initialize_async() (geminicli_runner.py 57-96): spawn_ok says
\* whether pexpect.spawn returns, sys how the system prompt goes
SessInitialize(spawn_ok, sys) ==
    /\ Len(s_ops) < MaxOps
    /\ IF AlreadyInitialized(_initialized)
       THEN /\ s_ops' = Append(s_ops, Op("initialize", "skipped", NoText, _child,
                                         _initialized, _last_answer))
            /\ UNCHANGED << _child, _initialized, _last_answer, s_spawned, s_sys_sent >>
       ELSE IF ~spawn_ok
       THEN /\ s_ops' = Append(s_ops, Op("initialize", "raised", NoText, _child,
                                         _initialized, _last_answer))
            /\ UNCHANGED << _child, _initialized, _last_answer, s_spawned, s_sys_sent >>
       ELSE LET sent == system_prompt /\ sys.kind # "send_failed"
                l    == IF system_prompt /\ sys.kind = "answered" THEN sys.text
                        ELSE _last_answer
                i    == ~(system_prompt /\ sys.kind = "cancelled")
            IN  /\ _child' = "proc"
                /\ s_spawned' = s_spawned + 1
                /\ s_sys_sent' = IF sent THEN s_sys_sent + 1 ELSE s_sys_sent
                /\ _last_answer' = l
                /\ _initialized' = i
                /\ s_ops' = Append(s_ops, Op("initialize",
                                             IF i THEN "ok" ELSE "cancelled",
                                             NoText, "proc", i, l))
    /\ UNCHANGED << system_prompt, s_prompts_sent, s_quits >>
    /\ UNCHANGED notSessVars

\* runner.close() (geminicli_runner.py 380-400)
SessClose ==
    /\ Len(s_ops) < MaxOps
    /\ LET x == close(_child, _initialized, _last_answer)
       IN  /\ _child' = x.child
           /\ _initialized' = x.initialized
           /\ _last_answer' = x.last
           /\ s_ops' = Append(s_ops, Op("close", "ok", NoText, x.child, x.initialized,
                                        x.last))
    /\ s_quits' = IF _child # "none" THEN s_quits + 1 ELSE s_quits
    /\ UNCHANGED << system_prompt, s_spawned, s_sys_sent, s_prompts_sent >>
    /\ UNCHANGED notSessVars

\* await self._send_and_receive_async(prompt) (geminicli_runner.py 281-324)
SessExchange(out) ==
    /\ Len(s_ops) < MaxOps
    /\ IF ~SessionReady(_child, _initialized)
       THEN /\ s_ops' = Append(s_ops, Op("exchange", "not_initialized", NoText, _child,
                                         _initialized, _last_answer))
            /\ UNCHANGED << _last_answer, s_prompts_sent >>
       ELSE IF out.kind = "send_failed"
       THEN /\ s_ops' = Append(s_ops, Op("exchange", "error", NoText, _child,
                                         _initialized, _last_answer))
            /\ UNCHANGED << _last_answer, s_prompts_sent >>
       ELSE LET l == LastAnswerAfter(out, _last_answer)
            IN  /\ s_prompts_sent' = s_prompts_sent + 1
                /\ _last_answer' = l
                /\ s_ops' = Append(s_ops, Op("exchange", out.kind, _last_answer, _child,
                                             _initialized, l))
    /\ UNCHANGED << _child, _initialized, system_prompt, s_spawned, s_sys_sent, s_quits >>
    /\ UNCHANGED notSessVars

SessNext ==
    \/ \E spawn_ok \in BOOLEAN : \E sys \in SysOutcomes : SessInitialize(spawn_ok, sys)
    \/ SessClose
    \/ \E out \in ExchangeOutcomes : SessExchange(out)

SessSpec == SessInit /\ [][SessNext]_vars

(***************************************************************************)
(* Properties.                                                             *)
(***************************************************************************)
\* exchanges being awaited
ActiveExchanges ==
    (IF msg_pc \in {"comment_exch", "flush_exch"} THEN 1 ELSE 0)
    + Cardinality({ id \in DOMAIN tasks : tasks[id].st = "exch" })
    + (IF conn_pc = "teardown" THEN 1 ELSE 0)

FlushesOf(k) == SelectSeq(flushes, LAMBDA f : f.key = k)

RECURSIVE FlatLines(_)
FlatLines(fs) == IF fs = << >> THEN << >> ELSE Head(fs).lines \o FlatLines(Tail(fs))

\* the lines handled for k that no flush has taken yet
PendingLines(k) ==
    SubSeq(received[k], Len(FlatLines(FlushesOf(k))) + 1, Len(received[k]))

CeilDiv(n, t) == (n + t - 1) \div t

NoIdleFlush(k) == \A i \in 1..Len(flushes) : flushes[i].key = k => flushes[i].by # "idle"

\* the key's idle task is scheduled and still asleep
TimerPending(k) == idle_tasks[k] # 0 /\ tasks[idle_tasks[k]].st = "sleep"

\* line m, handled for its key, brought the buffer to the threshold
FilledBatch(m) ==
    \E i \in 1..Len(flushes) :
        /\ flushes[i].by = "threshold"
        /\ flushes[i].lines[Len(flushes[i].lines)] = LineText(m)

\* C1: at most one exchange (send prompt, scan for the answer, wait for the
\* ready prompt) is active against the session at any instant, whatever the
\* interleaving of the immediate-comment path, threshold flushes and idle
\* flushes.
C1_OneExchangeAtATime == ActiveExchanges <= 1

\* C2: N lines handled for one speaker with effective threshold T, no idle
\* flush for that speaker, and the teardown loop run to its end: the speaker's
\* flushes are exactly ceil(N/T), and the i-th one's text is the newline-join
\* of lines (i-1)T+1 .. min(iT, N) in arrival order.
C2_BatchesPartitionLines ==
    (conn_pc = "closed" /\ ~td_aborted) =>
        \A k \in Keys :
            NoIdleFlush(k) =>
                LET fs == FlushesOf(k)
                    N  == Len(received[k])
                    T  == EffectiveThreshold
                IN  /\ Len(fs) = CeilDiv(N, T)
                    /\ \A i \in 1..Len(fs) :
                           /\ fs[i].lines # << >>
                           /\ fs[i].text =
                                Join(SubSeq(received[k], (i - 1) * T + 1, Min(i * T, N)))

C2_Witness ==
    /\ conn_pc = "closed" /\ ~td_aborted
    /\ EffectiveThreshold = 2
    /\ \E k \in Keys :
           /\ NoIdleFlush(k)
           /\ Len(received[k]) = 3
           /\ Len(FlushesOf(k)) = 2
           /\ FlushesOf(k)[1].text = << 1, NL, 2 >>
           /\ FlushesOf(k)[2].text = << 3 >>

\* C3: in every interleaving of subtitle arrivals, idle timers, timer
\* cancellations and exchanges (no shutdown signal needed), every batch removed
\* from a buffer is followed by its dispatch: none is removed and then
\* abandoned before ws.send is reached.
C3_NoBatchLost ==
    ~shutdown_event => \A i \in 1..Len(flushes) : flushes[i].out # "cancelled"

\* C4 as stated, for every idle duration: while lines wait in a speaker's
\* buffer and the loop waits for the next message, that speaker's idle timer
\* is pending (so that it fires after the idle duration), and a timer flushes
\* at most once.
IdleFlushOncePerTimer ==
    \A i, j \in 1..Len(flushes) :
        (i # j /\ flushes[i].by = "idle" /\ flushes[j].by = "idle")
            => flushes[i].tid # flushes[j].tid

TimerPendingWhileBuffered ==
    msg_pc = "recv" => \A k \in Keys : speaker_buffers[k] # << >> => TimerPending(k)

C4_Original == TimerPendingWhileBuffered /\ IdleFlushOncePerTimer

\* a firing idle timer removes one batch: the key's whole buffer, which is
\* every line handled for the key since its last flush
IdleFireTakesAll ==
    \A id \in DOMAIN tasks :
        (tasks[id].st = "sleep" /\ tasks'[id].st = "exch") =>
            LET k == tasks[id].key
            IN  /\ Len(flushes') = Len(flushes) + 1
                /\ flushes'[Len(flushes')].key = k
                /\ flushes'[Len(flushes')].lines = PendingLines(k)
                /\ flushes'[Len(flushes')].text = Join(PendingLines(k))
                /\ PendingLines(k) # << >>
                /\ speaker_buffers'[k] = << >>

\* C4, amended: with idle_flush_seconds > 0 and the connection still served,
\* a line that leaves its speaker's buffer below the threshold leaves an idle
\* timer pending for that speaker; when the timer fires exactly one flush
\* occurs, and its batch is every line accumulated for the speaker so far.
C4_IdleFlush ==
    /\ [](idle_flush_seconds > 0 => TimerPendingWhileBuffered)
    /\ []IdleFlushOncePerTimer
    /\ [][IdleFireTakesAll]_vars

C4_Witness ==
    /\ idle_flush_seconds > 0 /\ conn_pc = "serving" /\ msg_pc = "recv"
    /\ \E i \in 1..Len(flushes) :
           /\ flushes[i].by = "idle"
           /\ Len(flushes[i].lines) = 2
           /\ flushes[i].out = "sent"

\* C5 as stated: once a line that arrived for a speaker while that speaker's
\* idle timer was asleep has been handled (the loop waits for the next
\* message), the timer is cancelled and a fresh one has been started, and the
\* superseded timer never flushes.
C5_Original ==
    \A n \in DOMAIN tasks :
        (tasks[n].sup # 0 /\ msg_pc = "recv") =>
            /\ tasks[n].st = "cancelled"
            /\ tasks[tasks[n].sup].st # "unborn"
            /\ \A i \in 1..Len(flushes) : flushes[i].tid # n

\* C5, amended: a line handled for a speaker while that speaker's idle timer
\* is asleep, and leaving the buffer below the threshold, cancels the timer
\* and starts a fresh one for the same speaker; a line that fills the batch
\* starts no timer, and the old one is cancelled once the threshold flush has
\* been dispatched; in both cases the superseded timer never removes a batch.
C5_Supersede ==
    \A n \in DOMAIN tasks :
        tasks[n].sup # 0 =>
            LET m == tasks[n].sup
            IN  /\ \A i \in 1..Len(flushes) : flushes[i].tid # n
                /\ IF FilledBatch(m)
                   THEN /\ tasks[m].st = "unborn"
                        /\ \A i \in 1..Len(flushes) :
                               ( /\ flushes[i].by = "threshold"
                                 /\ flushes[i].lines[Len(flushes[i].lines)] = LineText(m)
                                 /\ flushes[i].out = "sent" )
                               => tasks[n].st \in {"cancelled", "done"}
                   ELSE /\ tasks[n].st = "cancelled"
                        /\ tasks[m].st # "unborn"
                        /\ tasks[m].key = tasks[n].key

C5_Witness ==
    /\ \E n \in DOMAIN tasks :
           /\ tasks[n].sup # 0 /\ ~FilledBatch(tasks[n].sup)
           /\ tasks[n].st = "cancelled" /\ tasks[tasks[n].sup].st # "unborn"
    /\ \E n \in DOMAIN tasks :
           /\ tasks[n].sup # 0 /\ FilledBatch(tasks[n].sup)
           /\ tasks[n].st = "cancelled"

\* flushes of key k begun after the shutdown signal
FlushesAfterShutdown(k) ==
    { i \in (sd_snapshot.nflush + 1)..Len(flushes) : flushes[i].key = k }

\* C6: a shutdown signal finds both speakers with non-empty buffers, only the
\* teardown loop flushes after it, and that loop runs to its end; by the time
\* the run has ended each buffer has
\* been flushed exactly once, its comment sent while the transport was open,
\* and no idle timer has flushed after the connection closed.
C6_ShutdownFlushesAll ==
    ( /\ main_pc = "done" /\ ~td_aborted
      /\ \A k \in Keys : sd_snapshot.bufs[k] # << >>
      /\ \A i \in (sd_snapshot.nflush + 1)..Len(flushes) : flushes[i].by = "teardown" )
    => /\ \A k \in Keys :
              /\ Cardinality(FlushesAfterShutdown(k)) = 1
              /\ \A i \in FlushesAfterShutdown(k) : flushes[i].out = "sent"
       /\ ~late_fire

(***************************************************************************)
(* Properties of the completion detector and the session bridge.           *)
(***************************************************************************)
\* C7: _last_answer holds only what the session began with or what the
\* detector returned on confirmation (a blank line, then the 'Using:' line),
\* never a tracked value returned because the deadline expired or the read
\* failed.
C7_LastAnswerOnlyConfirmed == last_answer_src \in {"init", "confirmed"}

\* the body of the last marker line with a non-empty body among script[from..to]
RECURSIVE LastMarkerBody(_, _)
LastMarkerBody(from, to) ==
    IF to < from THEN NoText
    ELSE LET c == Content(script[to])
         IN  IF HasMarker(c) /\ MarkerBody(c) # << >> THEN MarkerBody(c)
             ELSE LastMarkerBody(from, to - 1)

\* the body of the first marker line among script[from..to] taken as new
\* with skip_text None
RECURSIVE FirstMarkerBody(_, _)
FirstMarkerBody(from, to) ==
    IF to < from THEN NoText
    ELSE LET c == Content(script[from])
         IN  IF HasMarker(c) /\ MarkerBody(c) # << >> THEN MarkerBody(c)
             ELSE FirstMarkerBody(from + 1, to)

\* C8: with skip_text None and the streaming script read to its end the
\* detector returns 'Hello, world'; and whenever the detector returns a tracked
\* answer, it is the body of the last marker line with text read since the
\* tracking began, however many earlier marker lines streamed a prefix.
C8_ReturnsLastMarkerBody ==
    /\ ( /\ script = ScriptStreaming /\ skip_text = NoText /\ xstart = 0
         /\ det_pc = "returned" /\ pos = Len(script) )
       => answer = HelloWorld
    /\ (det_pc = "returned" /\ answer # NoText)
       => (track_from > 0 /\ answer = LastMarkerBody(track_from, pos))

\* C8 witness: the streaming script has been read to its end with skip_text
\* None and the detector has returned 'Hello, world', not the prefix 'Hello'
\* of its first marker line.
C8_Witness ==
    /\ script = ScriptStreaming /\ skip_text = NoText /\ xstart = 0
    /\ det_pc = "returned" /\ pos = Len(script)
    /\ answer = HelloWorld
    /\ FirstMarkerBody(1, pos) = Hello

\* C9: with skip_text 'Hello, world' and the stale script read to its end the
\* detector returns 'New answer'; and an answer the detector returns as
\* confirmed is never equal to skip_text.
C9_NeverReturnsSkipText ==
    /\ ( /\ script = ScriptStale /\ skip_text = HelloWorld /\ xstart = 0
         /\ det_pc = "returned" /\ pos = Len(script) )
       => answer = NewAnswer
    /\ (det_pc = "returned" /\ how = "confirmed") => answer # skip_text

(***************************************************************************)
(* Properties of the sanitizer.                                            *)
(***************************************************************************)
\* C10: for every text, the sanitizer's result holds none of the 14 reserved
\* characters, has every non-reserved character unchanged in its place, and
\* is left as it is by a second sanitization.
C10_SanitizeTotalIdempotent ==
    /\ san_pc \in {"once", "twice"} =>
         /\ \A i \in 1..Len(san_out) : san_out[i] \notin Reserved
         /\ Len(san_out) = Len(san_in)
         /\ \A i \in 1..Len(san_in) : san_in[i] \notin Reserved => san_out[i] = san_in[i]
    /\ san_pc = "twice" => san_out2 = san_out

\* C10 witness: a text holding the last reserved character of the map next to
\* an ordinary one has been sanitized twice; the first pass changed it and the
\* second did not.
C10_Witness ==
    /\ san_pc = "twice"
    /\ san_in = << "~", "a" >>
    /\ san_out = << "U+FF5E", "a" >>
    /\ san_out2 = san_out

(***************************************************************************)
(* Properties of the connection engine: failures, cancellation, bounds.    *)
(***************************************************************************)
\* main_with_runner has gone on after the connection ended
MainMovedOn == main_pc \in {"backoff_sleep", "reset_reconnect"}

\* C12: when the connection has ended because the receive loop observed the
\* transport closed, main_with_runner goes to its backoff sleep and does not
\* reset the backoff.
C12_DropLeadsToBackoff ==
    (MainMovedOn /\ msg_pc = "done") => main_pc = "backoff_sleep"

\* C14: an idle task into which a cancellation was thrown ends by raising
\* CancelledError, as the message loop does; it does not return normally.
C14_CancellationPropagates ==
    \A id \in DOMAIN tasks :
        tasks[id].st = "cancelled" => tasks[id].end = "raised_cancelled"

\* a step of the message loop that reads a message and neither records a
\* subtitle line nor starts a comment's exchange
ReadsOtherMessage ==
    /\ nrecv' = nrecv + 1
    /\ received' = received
    /\ Len(comments') = Len(comments)

\* C16: a message that is neither a subtitle nor a comment with text (not
\* JSON, not an object, params not an object, unknown type, no text) changes
\* no buffer and no timer, dispatches nothing, and the receive loop goes on to
\* its next turn.
C16_MalformedDropped ==
    [][ReadsOtherMessage =>
          /\ speaker_buffers' = speaker_buffers
          /\ idle_tasks' = idle_tasks
          /\ tasks' = tasks
          /\ flushes' = flushes
          /\ msg_pc' \in {"recv", "done"}]_vars

\* a send of a dispatched comment has failed (immediate comment, threshold
\* flush or idle-timer flush)
DispatchSendFailed ==
    \/ \E i \in 1..Len(flushes) :
          flushes[i].by \in {"threshold", "idle"} /\ flushes[i].out = "sendfail"
    \/ \E j \in 1..Len(comments) : comments[j] = "sendfail"

\* C17: when a dispatch's send has failed and the connection has ended,
\* main_with_runner handles the end as a connection failure: it goes to its
\* backoff sleep.
C17_SendFailureLeadsToBackoff ==
    (MainMovedOn /\ DispatchSendFailed) => main_pc = "backoff_sleep"

\* C18: wherever another task can run, every speaker's buffer is shorter than
\* the effective threshold max(1, lines_per_inference): a buffer that reaches
\* it is cleared in the same step, before any further line is appended.
C18_BufferBelowThreshold ==
    \A k \in Keys : Len(speaker_buffers[k]) < EffectiveThreshold

\* C18 witness: a buffer reached a threshold of two lines or more, was
\* flushed whole, and holds the one line appended after that.
C18_Witness ==
    \E k \in Keys :
        /\ EffectiveThreshold >= 2
        /\ Len(speaker_buffers[k]) = 1
        /\ \E i \in 1..Len(flushes) :
              /\ flushes[i].key = k /\ flushes[i].by = "threshold"
              /\ Len(flushes[i].lines) = EffectiveThreshold

\* the idle tasks of key k that are scheduled and neither cancelled nor finished
AliveTimers(k) == { id \in DOMAIN tasks : tasks[id].key = k /\ Alive(tasks[id]) }

\* C19: each speaker key has at most one idle task that is scheduled and
\* neither cancelled nor finished.
C19_OneTimerPerKey ==
    \A k \in Keys : Cardinality(AliveTimers(k)) <= 1

\* C19 witness: a key has a live idle task that replaced an earlier one of
\* the same key, now cancelled.
C19_Witness ==
    \E k \in Keys :
        /\ Cardinality(AliveTimers(k)) = 1
        /\ \E id \in DOMAIN tasks : tasks[id].key = k /\ tasks[id].st = "cancelled"

(***************************************************************************)
(* Properties of main_with_runner.                                         *)
(***************************************************************************)
RECURSIVE Pow2(_)
Pow2(n) == IF n <= 0 THEN 1 ELSE 2 * Pow2(n - 1)

\* the sleep of the latest failure is min(I * 2^(k-1), M), k the number of
\* consecutive failures
SleepFollowsFormula ==
    m_pc = "sleeping" =>
        sleeps[Len(sleeps)] = Min(reconnect_initial_ms * Pow2(fails - 1), reconnect_max_ms)

C13_ShutdownInterruptsBackoff ==
    [][~(m_pc = "sleeping" /\ shutdown_event /\ m_pc' = "loop_top")]_vars

\* C15: when the child failed to start or its ready prompt was not seen in
\* the initialization wait, main_with_runner ends without creating any
\* connection.
C15_NoServiceWithoutReadyPrompt ==
    init_outcome \in {"spawn_failed", "prompt_timeout", "prompt_error"}
        => (attempts = 0 /\ ~initialized /\ m_pc = "ended")

(***************************************************************************)
(* Properties of the comment generation (GenSpec).                         *)
(***************************************************************************)
\* the exchange of the comment last generated ended without a usable comment
NeedsFallback ==
    \/ g_outcome \in {"timeout", "error"}
    \/ g_outcome = "answer" /\ g_extracted = << >>

\* C20: every outbound message carries a non-empty comment text; when the
\* exchange timed out, failed with a non-cancellation error, or the extractor
\* yielded the empty string, the comment handed to the dispatch and the text
\* sent is the fixed fallback comment, and after the send the loop is back at
\* its receive.
C20_OutboundCommentNonEmpty ==
    /\ (g_pc = "recv" /\ g_nsent > 0) => g_sent # << >>
    /\ g_pc = "dispatch" => g_comment # << >>
    /\ (g_pc = "dispatch" /\ NeedsFallback) => g_comment = FallbackComment
    /\ (g_pc = "recv" /\ g_nsent > 0 /\ NeedsFallback) => g_sent = FallbackComment
    /\ NeedsFallback => g_pc \in {"dispatch", "recv", "failed"}
    /\ g_pc = "failed" => g_comment # << >>

\* C20 witness: an answer of two quote characters was extracted to the empty
\* string, the fallback was sent in its place and the loop receives again.
C20_Witness ==
    /\ g_pc = "recv"
    /\ g_nsent > 0
    /\ g_outcome = "answer"
    /\ g_raw = << "\"", "\"" >>
    /\ g_extracted = << >>
    /\ g_sent = FallbackComment

(***************************************************************************)
(* Properties of events without text (EvtSpec).                            *)
(***************************************************************************)
\* the message loop has read a message that added no line and started no
\* immediate comment: under EvtSpec, an event without text
ReadsEmptyTextEvent ==
    /\ nrecv' = nrecv + 1
    /\ received' = received
    /\ Len(comments') = Len(comments)

\* messages read so far that were events without text (under EvtSpec)
EmptyTextEventsRead ==
    LET lines == { << k, i >> \in Keys \X (1..MaxMsgs) : i <= Len(received[k]) }
    IN  nrecv - Cardinality(lines) - Len(comments)

\* C21: reading a comment or subtitle event without text, in either wire
\* shape, leaves every speaker buffer and every idle timer as it was, starts
\* no exchange and dispatches nothing; the loop goes on to its next turn.
C21_EmptyTextDropped ==
    [][ReadsEmptyTextEvent =>
          /\ speaker_buffers' = speaker_buffers
          /\ buf_keys' = buf_keys
          /\ idle_tasks' = idle_tasks
          /\ tasks' = tasks
          /\ flushes' = flushes
          /\ comments' = comments
          /\ msg_flush' = msg_flush
          /\ msg_pc' \in {"recv", "done"}]_vars

\* C21 witness: a subtitle line and an event without text were read; the
\* line is buffered, its idle task asleep, nothing was flushed and the loop
\* is at its receive.
C21_Witness ==
    /\ EmptyTextEventsRead = 1
    /\ nrecv = 2
    /\ msg_pc = "recv"
    /\ flushes = << >>
    /\ \E k \in Keys :
          /\ Len(speaker_buffers[k]) = 1
          /\ idle_tasks[k] # 0
          /\ tasks[idle_tasks[k]].st = "sleep"

(***************************************************************************)
(* Properties of the session's life (SessSpec).                            *)
(***************************************************************************)
\* the step is a call of the given name
Calls(name) ==
    /\ Len(s_ops') = Len(s_ops) + 1
    /\ s_ops'[Len(s_ops')].name = name

\* close() has been called and _initialize_async has not been called since
ClosedSince ==
    \E i \in 1..Len(s_ops) :
        /\ s_ops[i].name = "close"
        /\ \A j \in (i + 1)..Len(s_ops) : s_ops[j].name # "initialize"

\* C22: a call of initialize made while the session is initialized, that is
\* after a successful initialize and no close, starts no process, sends no
\* system prompt and leaves the process handle, the initialized flag and the
\* last answer as they were.
C22_InitializeIdempotent ==
    [][(Calls("initialize") /\ _initialized) =>
          /\ s_spawned' = s_spawned
          /\ s_sys_sent' = s_sys_sent
          /\ _child' = _child
          /\ _initialized' = _initialized
          /\ _last_answer' = _last_answer]_vars

\* C22 witness: with a system prompt configured, initialize succeeded and was
\* called again: one process was started and one system prompt sent.
C22_Witness ==
    /\ system_prompt
    /\ Len(s_ops) = 2
    /\ s_ops[1].name = "initialize" /\ s_ops[1].result = "ok"
    /\ s_ops[2].name = "initialize" /\ s_ops[2].result = "skipped"
    /\ s_spawned = 1
    /\ s_sys_sent = 1
    /\ _initialized

\* C23: after close returns, in whatever state it was called, the process
\* handle is absent, the initialized flag false and the last answer None; a
\* close that directly follows a close changes nothing and sends nothing; an
\* exchange attempted after a close, with no initialize in between, ends with
\* the not-initialized error and sends no prompt.
C23_CloseIdempotent ==
    [][/\ Calls("close") =>
             /\ _child' = "none"
             /\ _initialized' = FALSE
             /\ _last_answer' = NoText
       /\ (Calls("close") /\ s_ops # << >> /\ s_ops[Len(s_ops)].name = "close") =>
             /\ UNCHANGED << _child, _initialized, _last_answer >>
             /\ UNCHANGED << s_spawned, s_sys_sent, s_prompts_sent, s_quits >>
       /\ (Calls("exchange") /\ ClosedSince) =>
             /\ s_ops'[Len(s_ops')].result = "not_initialized"
             /\ s_prompts_sent' = s_prompts_sent
             /\ UNCHANGED << _child, _initialized, _last_answer >>]_vars

\* C23 witness: a session initialized with an answer to its system prompt was
\* closed twice and an exchange was attempted: it ended with the
\* not-initialized error, no prompt was sent and one "/quit" was.
C23_Witness ==
    /\ Len(s_ops) = 4
    /\ s_ops[1].name = "initialize" /\ s_ops[1].result = "ok" /\ s_ops[1].last # NoText
    /\ s_ops[2].name = "close"
    /\ s_ops[3].name = "close"
    /\ s_ops[4].name = "exchange" /\ s_ops[4].result = "not_initialized"
    /\ s_prompts_sent = 0
    /\ s_quits = 1
    /\ _child = "none" /\ ~_initialized /\ _last_answer = NoText

\* the call just made is an exchange that called _wait_answer
Scans == s_ops'[Len(s_ops')].result \in {"answer", "timeout", "cancelled"}

\* C29: an exchange that ends with no answer (_wait_answer returned None,
\* TimeoutError) leaves the last answer and the initialized flag as they were,
\* and the exchange called next hands _wait_answer the skip_text the failed
\* one had handed it.
C29_FailedExchangeKeepsLastAnswer ==
    [][/\ (Calls("exchange") /\ s_ops'[Len(s_ops')].result = "timeout") =>
             /\ _last_answer' = _last_answer
             /\ _initialized' = _initialized
             /\ _child' = _child
       /\ (/\ Calls("exchange") /\ Scans
           /\ s_ops # << >>
           /\ s_ops[Len(s_ops)].name = "exchange"
           /\ s_ops[Len(s_ops)].result = "timeout") =>
             s_ops'[Len(s_ops')].skip = s_ops[Len(s_ops)].skip]_vars

\* C29 witness: the system prompt was answered, an exchange timed out, and
\* the next exchange scanned with the system prompt's answer as its skip_text,
\* as the failed one had.
C29_Witness ==
    /\ Len(s_ops) = 3
    /\ s_ops[1].name = "initialize" /\ s_ops[1].last # NoText
    /\ s_ops[2].name = "exchange" /\ s_ops[2].result = "timeout"
    /\ s_ops[2].skip = s_ops[1].last
    /\ s_ops[3].name = "exchange" /\ s_ops[3].result = "answer"
    /\ s_ops[3].skip = s_ops[1].last
    /\ _initialized

(***************************************************************************)
(* Properties of the extractor (ExtSpec).                                  *)
(***************************************************************************)
\* the first non-blank line of the raw output, normalized and not cut
NormalizedLine(raw) ==
    StripQuotes(StripRoles(StripBullet(StripFence(
        FirstNonBlank(SplitLines(StripAnsi(raw))))), 1))

\* C24: with max_output_chars > 0 the extracted comment has at most that many
\* characters, and when the normalized first non-blank line is longer it is
\* exactly the line's first max_output_chars characters; with
\* max_output_chars <= 0 the normalized line is returned whole; an empty raw
\* output yields the empty string.
C24_ExtractTruncates ==
    g_pc = "extracted" =>
        LET n == NormalizedLine(g_raw)
            max == max_output_chars
        IN  /\ max > 0 => Len(g_extracted) <= max
            /\ (max > 0 /\ Len(n) > max) =>
                  /\ Len(g_extracted) = max
                  /\ g_extracted = SubSeq(n, 1, max)
            /\ (max > 0 /\ Len(n) <= max) => g_extracted = n
            /\ max <= 0 => g_extracted = n
            /\ g_raw = << >> => g_extracted = << >>

\* C24 witness: a first line of three characters behind a blank line was cut
\* to a max_output_chars of two.
C24_Witness ==
    /\ g_pc = "extracted"
    /\ max_output_chars = 2
    /\ g_raw = << "LF", "a", "b", "c" >>
    /\ g_extracted = << "a", "b" >>

(***************************************************************************)
(* Properties of the detector's phases (DetSpec).  SEEK_MARKER is Phase 1  *)
(* (det_pc = "seek"), TRACK is Phase 2 called for a new answer ("track"),  *)
(* DRAIN_STALE is Phase 2 called for a skipped block ("drain").            *)
(***************************************************************************)
\* the step is the detector's return because the deadline expired
ReturnsAtDeadline == det_pc # "returned" /\ det_pc' = "returned" /\ how' = "deadline"

\* a marker line with text is among the lines read in this exchange
MarkerLineRead ==
    \E i \in (xstart + 1)..pos :
        HasMarker(Content(script[i])) /\ MarkerBody(Content(script[i])) # << >>

\* C25: when the deadline expires in TRACK or DRAIN_STALE with a text
\* tracked, the detector returns that text; it returns None at the deadline
\* only when no marker line with text was read in the exchange.
C25_DeadlineReturnsTracked ==
    [][ReturnsAtDeadline =>
          /\ (det_pc \in {"track", "drain"} /\ Truthy(last)) => answer' = last
          /\ answer' = NoText => ~MarkerLineRead]_vars

\* the step reads, in the given phase, a line that holds the marker
ReadsMarkerLine(phase) ==
    /\ det_pc = phase
    /\ pos' = pos + 1
    /\ HasMarker(Content(script[pos + 1]))

\* the lines of this exchange are a marker line without text and then a
\* complete block of a new answer, and the step reads the block's last line
ReadsBlockAfterEmptyMarker ==
    /\ pos' = pos + 1
    /\ pos' = xstart + 4
    /\ xstart' = xstart
    /\ SubSeq(script, xstart + 1, xstart + 4) =
          << LineMarkerOnly, LineHello, LineAnsiBlank, LineUsing >>
    /\ skip_text # Hello

\* C26: in SEEK_MARKER a marker line with an empty body leaves the detector
\* in SEEK_MARKER; a complete block of a new answer read after such a line is
\* returned as the answer.
C26_EmptyBodyKeepsSeeking ==
    [][/\ (ReadsMarkerLine("seek") /\ MarkerBody(Content(script[pos + 1])) = << >>)
          => det_pc' = "seek"
       /\ ReadsBlockAfterEmptyMarker
          => (det_pc' = "returned" /\ answer' = Hello)]_vars

\* the step is a confirmation by Phase 2 tracking a text: it returns `last`
\* on a line read
Confirms ==
    /\ Truthy(last)
    /\ \/ det_pc = "track" /\ det_pc' = "returned" /\ how' = "confirmed"
       \/ det_pc = "drain" /\ det_pc' = "seek" /\ pos' = pos + 1

\* C27: Phase 2 confirms only on a line that starts with 'Using:' and comes
\* directly after a blank line read in the same phase.
C27_ConfirmsOnlyAfterBlank ==
    [][Confirms =>
          /\ StartsWithUsing(Content(script[pos + 1]))
          /\ pos > xstart + 1
          /\ Content(script[pos]) = << >>]_vars

\* script[from..to] is a block streamed with a spinner: it begins with a marker
\* line, a spinner line comes before its last marker line, and it ends with
\* that marker line, a blank line and the 'Using:' line
StreamedBlock(from, to) ==
    /\ from >= 1 /\ to <= Len(script) /\ to >= from + 4
    /\ HasMarker(Content(script[from]))
    /\ \E j \in (from + 1)..(to - 3) : IsSpinner(Content(script[j]))
    /\ \A j \in (from + 1)..(to - 3) :
          \/ IsSpinner(Content(script[j]))
          \/ HasMarker(Content(script[j])) /\ MarkerBody(Content(script[j])) # << >>
    /\ HasMarker(Content(script[to - 2])) /\ MarkerBody(Content(script[to - 2])) # << >>
    /\ Content(script[to - 1]) = << >>
    /\ StartsWithUsing(Content(script[to]))

\* C28: when the lines tracked are a block streamed with a spinner before its
\* last marker line, reading the block's 'Using:' line confirms: the detector
\* returns the tracked value at that line.
C28_SpinnerBlockConfirms ==
    [][(/\ det_pc = "track"
        /\ pos' = pos + 1
        /\ StreamedBlock(track_from, pos + 1))
          => (det_pc' = "returned" /\ how' = "confirmed" /\ answer' = last)]_vars

(***************************************************************************)
(* Properties of the immediate comment (Spec).                             *)
(***************************************************************************)
\* the step is a step of the comment branch: it reads a comment event with
\* text, or its exchange returns and the comment is sent
CommentBranchStep ==
    \/ Len(comments') = Len(comments) + 1
    \/ /\ msg_pc = "comment_exch"
       /\ comments # << >>
       /\ comments'[Len(comments)] \in {"sent", "sendfail"}

\* C30: the comment branch changes no speaker buffer and no idle timer and
\* begins no flush; each comment event has one dispatch, each message is read
\* only when no comment's exchange is in flight, and the loop goes on to a
\* next message only after the comment was sent.
C30_ImmediateComment ==
    [][/\ CommentBranchStep =>
             /\ speaker_buffers' = speaker_buffers
             /\ buf_keys' = buf_keys
             /\ idle_tasks' = idle_tasks
             /\ tasks' = tasks
             /\ flushes' = flushes
             /\ Len(comments') \in {Len(comments), Len(comments) + 1}
       /\ nrecv' = nrecv + 1 =>
             /\ msg_pc = "recv"
             /\ \A j \in 1..Len(comments) : comments[j] = "sent"
       /\ \A j \in 1..Len(comments') :
             comments'[j] = "inflight" => (j = Len(comments') /\ msg_pc' = "comment_exch")
      ]_vars

\* C30 witness: a line is buffered with its idle task asleep, a comment event
\* was handled and its one comment sent, nothing was flushed, and a third
\* message has been read.
C30_Witness ==
    /\ comments = << "sent" >>
    /\ nrecv = 3
    /\ msg_pc = "recv"
    /\ flushes = << >>
    /\ \E k \in Keys :
          /\ Len(speaker_buffers[k]) = 1
          /\ idle_tasks[k] # 0
          /\ tasks[idle_tasks[k]].st = "sleep"

(***************************************************************************)
(* Properties of the extractor's bullet prefixes (ExtSpec).                *)
(***************************************************************************)
\* the first non-blank line of the raw output, as the bullet test sees it
BulletLine(raw) == StripFence(FirstNonBlank(SplitLines(StripAnsi(raw))))

\* the line with exactly the prefix p and the whitespace around the rest
\* removed, then normalized and cut as every line is
WithoutPrefix(line, p, max) ==
    Truncate(StripQuotes(StripRoles(StripOf(Drop(line, Len(p)), StripChars), 1)), max)

\* C31: when the first non-blank line starts with one of the bullet,
\* numbering or checkmark prefixes, the extracted comment is what the line
\* gives with exactly that prefix and the surrounding whitespace removed:
\* every character after the prefix is kept, up to the later steps and the
\* truncation.
C31_BulletPrefixRemoved ==
    g_pc = "extracted" =>
        \A p \in BulletPrefixes :
            StartsWith(BulletLine(g_raw), p) =>
                g_extracted = WithoutPrefix(BulletLine(g_raw), p, max_output_chars)

====
